---- MODULE Spec2Model ----
(***************************************************************************)
(* State-machine model of the rm01-esp32s3-bsp firmware:                   *)
(*   components/hardware_control/hardware_control.c   (pins, fan, LEDs,    *)
(*       USB mux, power sequencer, status record)                          *)
(*   components/device_interface/device_interface.c   (quick setup,        *)
(*       shutdown, sleep/wake, configuration load/save)                    *)
(*   components/system_monitor/system_monitor.c       (telemetry task      *)
(*       lifecycle, as far as the device interface drives it)              *)
(*                                                                         *)
(* One foreground task issues one command at a time.  Commands whose       *)
(* intermediate pin states matter (mux switch, reset / power-button        *)
(* pulses, recovery-mode entry) advance one pin write per step through     *)
(* pc; every other command is a single step.  The ESP-IDF drivers are      *)
(* the environment: a GPIO or LED-strip driver call either takes effect    *)
(* and returns ESP_OK or returns an error and changes nothing.  Driver     *)
(* calls wrapped in ESP_ERROR_CHECK abort the firmware on error and are    *)
(* modelled on their success path only.                                    *)
(***************************************************************************)
EXTENDS Integers, Sequences, FiniteSets, TLC

\* ------------------------------------------------------------ constants

ESP32_MUX1_SEL == 8
ESP32_MUX2_SEL == 48
ORIN_POWER_PIN == 3
ORIN_RESET_PIN == 1
ORIN_RECOVERY_PIN == 40
N305_POWER_BTN_PIN == 46
N305_RESET_PIN == 2

FAN_PWM_PIN == 41
BOARD_WS2812_PIN == 42
TOUCH_WS2812_PIN == 45
BOARD_WS2812_NUM == 28
TOUCH_WS2812_NUM == 1
DEFAULT_LED_BRIGHTNESS == 50
DEFAULT_FAN_SPEED_ON == 50

GPIO_STATE_LOW == 0
GPIO_STATE_HIGH == 1

USB_MUX_ESP32S3 == 0
USB_MUX_AGX == 1
USB_MUX_N305 == 2

POWER_STATE_OFF == 0
POWER_STATE_ON == 1
POWER_STATE_UNKNOWN == 2

LED_EFFECT_SOLID == 0
LED_EFFECT_RAINBOW == 1

ESP_OK == "ESP_OK"
ESP_FAIL == "ESP_FAIL"
ESP_ERR_INVALID_ARG == "ESP_ERR_INVALID_ARG"
ESP_ERR_INVALID_STATE == "ESP_ERR_INVALID_STATE"
ESP_ERR_NVS_NOT_FOUND == "ESP_ERR_NVS_NOT_FOUND"

\* The pins the component drives.
Pins ==
  {ESP32_MUX1_SEL, ESP32_MUX2_SEL, ORIN_POWER_PIN, ORIN_RESET_PIN,
   ORIN_RECOVERY_PIN, N305_POWER_BTN_PIN, N305_RESET_PIN}

led_color_t(r, g, b) == [red |-> r, green |-> g, blue |-> b]

LED_COLOR_OFF == led_color_t(0, 0, 0)

\* ------------------------------------------------------------ state

VARIABLES
  s_initialized,       \* hardware_control.c: s_initialized
  s_hardware_status,   \* hardware_control.c: s_hardware_status
  s_board_led_strip,   \* TRUE when the board strip handle is not NULL
  s_touch_led_strip,   \* TRUE when the touch strip handle is not NULL
  board_pixels,        \* pixel buffer of the board strip driver
  touch_pixels,        \* pixel buffer of the touch strip driver
  fan_duty,            \* duty committed to the LEDC channel
  gpio_level,          \* output latch of each pin
  gpio_mode,           \* direction of each pin: "reset", "input", "output"
  pc,                  \* position of the console task: "idle" at the prompt,
                       \* a label inside a command, "done" when it returned
  call,                \* the public operation in progress or just finished
  arg,                 \* its argument
  ret,                 \* what the finished operation returned
  trace,               \* driver calls issued by the operation, in order,
                       \* each <<kind, pin, value>>; kind ends in _fail when
                       \* the driver refused the call
  dev_initialized,     \* device_interface.c: s_initialized
  s_config,            \* device_interface.c: s_config (the enable flags)
  s_last_status,       \* device_interface.c: s_last_status
  nvs,                 \* the "device_config" NVS namespace
  mon_initialized,     \* system_monitor.c: s_initialized
  s_monitoring_running, \* system_monitor.c: s_monitoring_running
  s_monitor_count,     \* system_monitor.c: s_monitor_count
  s_warning_count,     \* system_monitor.c: s_warning_count
  monitor_pc,          \* position of the monitor_task the handle was
                       \* created for: "none" when it does not exist, else
                       \* "started", "delay", "check", "callback" or "exit"
  s_monitor_task_handle, \* TRUE when s_monitor_task_handle is not NULL
  exiting_tasks,       \* monitor tasks that have cleared the handle and
                       \* not yet deleted themselves
  invalid_delete,      \* "none", or what a wrong vTaskDelete hit: a task
                       \* that no longer exists or the calling task
  driver_faults        \* the driver classes whose calls may fail in this run

hwvars ==
  <<s_initialized, s_hardware_status, s_board_led_strip, s_touch_led_strip,
    board_pixels, touch_pixels, fan_duty, gpio_level, gpio_mode, trace, ret,
    pc>>

devvars ==
  <<dev_initialized, s_config, s_last_status, nvs, mon_initialized,
    s_monitoring_running, s_monitor_count, s_warning_count, monitor_pc,
    s_monitor_task_handle, exiting_tasks, invalid_delete>>

vars == <<hwvars, call, arg, devvars, driver_faults>>

\* memset(&s_hardware_status, 0, sizeof(hardware_status_t))
ZeroStatus ==
  [initialized |-> FALSE,
   fan_speed |-> 0,
   board_led_color |-> LED_COLOR_OFF,
   board_led_brightness |-> 0,
   touch_led_color |-> LED_COLOR_OFF,
   touch_led_brightness |-> 0,
   usb_mux_target |-> 0,
   orin_power_state |-> 0,
   n305_power_state |-> 0]

ClearPixels(n) == [i \in 0..(n - 1) |-> LED_COLOR_OFF]

\* The hardware-control state as one value, so that an operation which calls
\* other operations can thread it through the calls.
HW ==
  [init |-> s_initialized,
   st |-> s_hardware_status,
   bstrip |-> s_board_led_strip,
   tstrip |-> s_touch_led_strip,
   bpix |-> board_pixels,
   tpix |-> touch_pixels,
   duty |-> fan_duty,
   lvl |-> gpio_level,
   mode |-> gpio_mode,
   trace |-> trace,
   ret |-> ret,
   pc |-> pc]

SetHW(h) ==
  /\ s_initialized' = h.init
  /\ s_hardware_status' = h.st
  /\ s_board_led_strip' = h.bstrip
  /\ s_touch_led_strip' = h.tstrip
  /\ board_pixels' = h.bpix
  /\ touch_pixels' = h.tpix
  /\ fan_duty' = h.duty
  /\ gpio_level' = h.lvl
  /\ gpio_mode' = h.mode
  /\ trace' = h.trace
  /\ ret' = h.ret
  /\ pc' = h.pc

Ret(h, r) == [h EXCEPT !.ret = r]

\* The operation is over: it returns r to the console task.
Return(h, r) == [h EXCEPT !.ret = r, !.pc = "done"]

Goto(h, label) == [h EXCEPT !.pc = label]

Log(h, e) == [h EXCEPT !.trace = Append(@, e)]

\* ------------------------------------------------------------ GPIO driver

\* gpio_set_direction(pin, mode): ok = the driver accepted the call.
gpio_set_direction(h, pin, m, ok) ==
  IF ok
    THEN Ret(Log([h EXCEPT !.mode[pin] = m],
                 <<IF m = "output" THEN "dir_output" ELSE "dir_input", pin, 0>>),
             ESP_OK)
    ELSE Ret(Log(h, <<"dir_fail", pin, 0>>), ESP_FAIL)

\* gpio_set_level(pin, level): writes the output latch; the pad follows the
\* latch only while the pin is in output mode.
gpio_set_level(h, pin, v, ok) ==
  IF ok
    THEN Ret(Log([h EXCEPT !.lvl[pin] = v], <<"level", pin, v>>), ESP_OK)
    ELSE Ret(Log(h, <<"level_fail", pin, v>>), ESP_FAIL)

\* The level the pad is driven to, "z" when the pin does not drive it.
Driven(pin) == IF gpio_mode[pin] = "output" THEN gpio_level[pin] ELSE "z"

\* Outcomes of gpio_set_output's two driver calls.
GpioOutcomes ==
  IF "gpio" \in driver_faults THEN {"ok", "dir_fail", "level_fail"} ELSE {"ok"}

\* Outcomes of one gpio_set_level or gpio_set_direction call.
GpioCallOk == IF "gpio" \in driver_faults THEN BOOLEAN ELSE {TRUE}

gpio_set_output(h, pin, state, out) ==
  LET h1 == gpio_set_direction(h, pin, "output", out # "dir_fail")
  IN IF h1.ret # ESP_OK
       THEN h1
       ELSE gpio_set_level(h1, pin, state, out # "level_fail")

gpio_toggle_output(h, pin, out) == gpio_set_output(h, pin, GPIO_STATE_LOW, out)

\* gpio_read_input_mode(pin, &state) with a non-NULL state pointer.
gpio_read_input_mode(h, pin, ok) ==
  LET h1 == gpio_set_direction(h, pin, "input", ok)
  IN IF h1.ret # ESP_OK THEN h1 ELSE Ret(h1, ESP_OK)

\* Driver calls issued in order, the k-th of them failing (k = 0: none fails).
\* A call is <<"dir", pin, mode>> or <<"level", pin, value>>.  Every entry
\* of trace is <<kind, pin, value>>.
RECURSIVE RunWrites(_, _, _)
RunWrites(h, ws, k) ==
  IF ws = <<>>
    THEN Ret(h, ESP_OK)
    ELSE LET w == Head(ws)
             h1 == IF w[1] = "dir"
                     THEN gpio_set_direction(h, w[2], w[3], k # 1)
                     ELSE gpio_set_level(h, w[2], w[3], k # 1)
         IN IF h1.ret # ESP_OK THEN h1 ELSE RunWrites(h1, Tail(ws), k - 1)

\* ------------------------------------------------------------ fan

\* Mutant: the speed is stored before it is validated.
fan_set_speed_store_first(h, speed) ==
  IF ~h.init
    THEN Ret(h, ESP_ERR_INVALID_STATE)
    ELSE LET h1 == [h EXCEPT !.st.fan_speed = speed]
             duty == (speed * 255) \div 100
         IN IF speed > 100
              THEN Ret(h1, ESP_ERR_INVALID_ARG)
              ELSE Ret(Log([h1 EXCEPT !.duty = duty],
                           <<"pwm", FAN_PWM_PIN, duty>>),
                       ESP_OK)

\* Mutant: the percentage is scaled to 256 steps.
fan_set_speed_scaled_256(h, speed) ==
  IF ~h.init
    THEN Ret(h, ESP_ERR_INVALID_STATE)
    ELSE IF speed > 100
      THEN Ret(h, ESP_ERR_INVALID_ARG)
      ELSE LET duty == (speed * 256) \div 100
           IN Ret(Log([h EXCEPT !.st.fan_speed = speed, !.duty = duty],
                      <<"pwm", FAN_PWM_PIN, duty>>),
                  ESP_OK)

fan_set_speed(h, speed) ==
  IF ~h.init
    THEN Ret(h, ESP_ERR_INVALID_STATE)
    ELSE IF speed > 100
      THEN Ret(h, ESP_ERR_INVALID_ARG)
      ELSE LET duty == (speed * 255) \div 100
           IN Ret(Log([h EXCEPT !.st.fan_speed = speed, !.duty = duty],
                      <<"pwm", FAN_PWM_PIN, duty>>),
                  ESP_OK)

fan_get_speed == s_hardware_status.fan_speed

fan_start(h) == fan_set_speed(h, DEFAULT_FAN_SPEED_ON)

fan_stop(h) == fan_set_speed(h, 0)

\* ------------------------------------------------------------ LED strips

\* Outcomes of the strip driver during one apply_led_color: every call
\* succeeds, the set_pixel call of pixel k fails, or the refresh fails.
LedOutcomes(num_leds) ==
  IF "led" \in driver_faults
    THEN {<<"ok">>, <<"refresh_fail">>} \cup
         {<<"pixel_fail", k>> : k \in {0, num_leds - 1}}
    ELSE {<<"ok">>}

\* Mutant: the scaled channel is rounded to nearest instead of truncated.
Scale_rounded(channel, brightness) ==
  ((channel * brightness + 50) \div 100) % 256

Scale(channel, brightness) == ((channel * brightness) \div 100) % 256

StripPin(strip) ==
  IF strip = "board" THEN BOARD_WS2812_PIN ELSE TOUCH_WS2812_PIN

Handle(h, strip) == IF strip = "board" THEN h.bstrip ELSE h.tstrip

Pixels(h, strip) == IF strip = "board" THEN h.bpix ELSE h.tpix

WithPixels(h, strip, px) ==
  IF strip = "board" THEN [h EXCEPT !.bpix = px] ELSE [h EXCEPT !.tpix = px]

apply_led_color(h, strip, color, brightness, num_leds, out) ==
  IF ~Handle(h, strip)
    THEN Ret(h, ESP_ERR_INVALID_ARG)
    ELSE
      LET final == led_color_t(Scale(color.red, brightness),
                               Scale(color.green, brightness),
                               Scale(color.blue, brightness))
          written == IF out[1] = "pixel_fail" THEN out[2] ELSE num_leds
          px == [i \in 0..(num_leds - 1) |->
                   IF i < written THEN final ELSE Pixels(h, strip)[i]]
          h1 == Log(WithPixels(h, strip, px),
                    <<"led_pixels", StripPin(strip), written>>)
      IN CASE out[1] = "pixel_fail" ->
                Ret(Log(h1, <<"led_pixel_fail", StripPin(strip), written>>),
                    ESP_FAIL)
           [] out[1] = "refresh_fail" ->
                Ret(Log(h1, <<"led_refresh_fail", StripPin(strip), 0>>),
                    ESP_FAIL)
           [] OTHER -> Ret(Log(h1, <<"led_refresh", StripPin(strip), 0>>),
                           ESP_OK)

board_led_set_color(h, color, out) ==
  IF ~h.init
    THEN Ret(h, ESP_ERR_INVALID_STATE)
    ELSE LET h1 == [h EXCEPT !.st.board_led_color = color]
         IN apply_led_color(h1, "board", color, h1.st.board_led_brightness,
                            BOARD_WS2812_NUM, out)

\* Mutant: no range check on the brightness.
board_led_set_brightness_unchecked(h, brightness, out) ==
  IF ~h.init
    THEN Ret(h, ESP_ERR_INVALID_STATE)
    ELSE LET h1 == [h EXCEPT !.st.board_led_brightness = brightness]
         IN apply_led_color(h1, "board", h1.st.board_led_color, brightness,
                            BOARD_WS2812_NUM, out)

board_led_set_brightness(h, brightness, out) ==
  IF ~h.init
    THEN Ret(h, ESP_ERR_INVALID_STATE)
    ELSE IF brightness > 100
      THEN Ret(h, ESP_ERR_INVALID_ARG)
      ELSE LET h1 == [h EXCEPT !.st.board_led_brightness = brightness]
           IN apply_led_color(h1, "board", h1.st.board_led_color, brightness,
                              BOARD_WS2812_NUM, out)

Abs(x) == IF x < 0 THEN -x ELSE x

hsv_to_rgb(hue, saturation, value) ==
  LET c == (value * saturation) \div 100
      x == (c * (60 - Abs((hue % 120) - 60))) \div 60
      m == value - c
      raw == CASE hue < 60 -> <<c + m, x + m, m>>
               [] hue >= 60 /\ hue < 120 -> <<x + m, c + m, m>>
               [] hue >= 120 /\ hue < 180 -> <<m, c + m, x + m>>
               [] hue >= 180 /\ hue < 240 -> <<m, x + m, c + m>>
               [] hue >= 240 /\ hue < 300 -> <<x + m, m, c + m>>
               [] OTHER -> <<c + m, m, x + m>>
  IN led_color_t((((raw[1] % 256) * 255) \div 100) % 256,
                 (((raw[2] % 256) * 255) \div 100) % 256,
                 (((raw[3] % 256) * 255) \div 100) % 256)

\* Mutant: the hues are spread so that the last pixel closes the circle.
RainbowPixel_closed(i, brightness) ==
  LET rgb == hsv_to_rgb((i * 360) \div (BOARD_WS2812_NUM - 1), 100, 100)
  IN led_color_t(Scale(rgb.red, brightness), Scale(rgb.green, brightness),
                 Scale(rgb.blue, brightness))

RainbowPixel(i, brightness) ==
  LET rgb == hsv_to_rgb((i * 360) \div BOARD_WS2812_NUM, 100, 100)
  IN led_color_t(Scale(rgb.red, brightness), Scale(rgb.green, brightness),
                 Scale(rgb.blue, brightness))

board_led_set_effect(h, effect, out) ==
  IF ~h.init
    THEN Ret(h, ESP_ERR_INVALID_STATE)
    ELSE CASE effect = LED_EFFECT_RAINBOW ->
                 LET px == [i \in 0..(BOARD_WS2812_NUM - 1) |->
                              RainbowPixel(i, h.st.board_led_brightness)]
                 IN Ret(Log(Log([h EXCEPT !.bpix = px],
                                <<"led_pixels", BOARD_WS2812_PIN,
                                  BOARD_WS2812_NUM>>),
                            <<"led_refresh", BOARD_WS2812_PIN, 0>>),
                        ESP_OK)
           [] effect = LED_EFFECT_SOLID ->
                 board_led_set_color(h, h.st.board_led_color, out)
           [] OTHER -> Ret(h, ESP_ERR_INVALID_ARG)

\* Mutant: the strip is darkened through its brightness.
board_led_turn_off_by_brightness(h, out) == board_led_set_brightness(h, 0, out)

board_led_turn_off(h, out) == board_led_set_color(h, LED_COLOR_OFF, out)

\* Mutant: the colour is stored as it is written to the strip, scaled.
touch_led_set_color_baked(h, color, out) ==
  IF ~h.init
    THEN Ret(h, ESP_ERR_INVALID_STATE)
    ELSE LET b == h.st.touch_led_brightness
             h1 == [h EXCEPT !.st.touch_led_color =
                      led_color_t(Scale(color.red, b), Scale(color.green, b),
                                  Scale(color.blue, b))]
         IN apply_led_color(h1, "touch", color, b, TOUCH_WS2812_NUM, out)

touch_led_set_color(h, color, out) ==
  IF ~h.init
    THEN Ret(h, ESP_ERR_INVALID_STATE)
    ELSE LET h1 == [h EXCEPT !.st.touch_led_color = color]
         IN apply_led_color(h1, "touch", color, h1.st.touch_led_brightness,
                            TOUCH_WS2812_NUM, out)

touch_led_set_brightness(h, brightness, out) ==
  IF ~h.init
    THEN Ret(h, ESP_ERR_INVALID_STATE)
    ELSE IF brightness > 100
      THEN Ret(h, ESP_ERR_INVALID_ARG)
      ELSE LET h1 == [h EXCEPT !.st.touch_led_brightness = brightness]
           IN apply_led_color(h1, "touch", h1.st.touch_led_color, brightness,
                              TOUCH_WS2812_NUM, out)

touch_led_turn_off(h, out) == touch_led_set_color(h, LED_COLOR_OFF, out)

\* ------------------------------------------------------------ init / deinit

\* init_fan_pwm: the timer or the channel configuration may be refused.
init_fan_pwm(h, ok) ==
  IF ok THEN Ret([h EXCEPT !.duty = 0], ESP_OK) ELSE Ret(h, ESP_FAIL)

\* init_ws2812: fail is "none", "board" (the first led_strip_new_rmt_device
\* fails) or "touch" (the second one fails and the board strip is deleted).
init_ws2812(h, fail) ==
  CASE fail = "board" -> Ret(h, ESP_FAIL)
    [] fail = "touch" -> Ret([h EXCEPT !.bstrip = FALSE], ESP_FAIL)
    [] OTHER ->
         Ret([h EXCEPT !.bstrip = TRUE, !.tstrip = TRUE,
                       !.bpix = ClearPixels(BOARD_WS2812_NUM),
                       !.tpix = ClearPixels(TOUCH_WS2812_NUM)],
             ESP_OK)

\* Mutant: the select pins are made outputs but their levels are not written.
MuxInitWrites_directions_only ==
  <<<<"dir", ESP32_MUX1_SEL, "output">>,
    <<"dir", ESP32_MUX2_SEL, "output">>>>

MuxInitWrites ==
  <<<<"dir", ESP32_MUX1_SEL, "output">>,
    <<"dir", ESP32_MUX2_SEL, "output">>,
    <<"level", ESP32_MUX1_SEL, 0>>,
    <<"level", ESP32_MUX2_SEL, 0>>>>

init_usb_mux_gpio(h, k) ==
  LET h1 == RunWrites(h, MuxInitWrites, k)
  IN IF h1.ret # ESP_OK
       THEN h1
       ELSE [h1 EXCEPT !.st.usb_mux_target = USB_MUX_ESP32S3]

PowerInitWrites ==
  <<<<"dir", ORIN_POWER_PIN, "output">>,
    <<"dir", ORIN_RESET_PIN, "output">>,
    <<"dir", ORIN_RECOVERY_PIN, "output">>,
    <<"dir", N305_POWER_BTN_PIN, "output">>,
    <<"dir", N305_RESET_PIN, "output">>,
    <<"level", ORIN_POWER_PIN, 0>>,
    <<"level", ORIN_RESET_PIN, 0>>,
    <<"level", ORIN_RECOVERY_PIN, 0>>,
    <<"level", N305_POWER_BTN_PIN, 0>>,
    <<"level", N305_RESET_PIN, 0>>>>

\* Mutant: the pins are set up but the stored power states stay as
\* hardware_control_init preset them.
init_power_control_gpio_no_state(h, k) == RunWrites(h, PowerInitWrites, k)

init_power_control_gpio(h, k) ==
  LET h1 == RunWrites(h, PowerInitWrites, k)
  IN IF h1.ret # ESP_OK
       THEN h1
       ELSE [h1 EXCEPT !.st.orin_power_state = POWER_STATE_ON,
                       !.st.n305_power_state = POWER_STATE_UNKNOWN]

\* Where a hardware_control_init may fail: <<stage, k>>.
InitFailures ==
  IF "init" \in driver_faults
    THEN {<<"none", 0>>, <<"fan", 0>>, <<"ws_board", 0>>, <<"ws_touch", 0>>}
         \cup {<<"mux", k>> : k \in 1..Len(MuxInitWrites)}
         \cup {<<"power", k>> : k \in 1..Len(PowerInitWrites)}
    ELSE {<<"none", 0>>}

\* Mutant: the component is set up again although it is initialized.
hardware_control_init_always(h, fail) ==
  LET h0 == [h EXCEPT !.st =
               [ZeroStatus EXCEPT
                  !.board_led_brightness = DEFAULT_LED_BRIGHTNESS,
                  !.touch_led_brightness = DEFAULT_LED_BRIGHTNESS,
                  !.usb_mux_target = USB_MUX_ESP32S3,
                  !.orin_power_state = POWER_STATE_UNKNOWN,
                  !.n305_power_state = POWER_STATE_UNKNOWN]]
      h1 == init_fan_pwm(h0, fail[1] # "fan")
      h2 == init_ws2812(h1, CASE fail[1] = "ws_board" -> "board"
                              [] fail[1] = "ws_touch" -> "touch"
                              [] OTHER -> "none")
      h3 == init_usb_mux_gpio(h2, IF fail[1] = "mux" THEN fail[2] ELSE 0)
      h4 == init_power_control_gpio(
              h3, IF fail[1] = "power" THEN fail[2] ELSE 0)
  IN CASE h1.ret # ESP_OK -> h1
       [] h1.ret = ESP_OK /\ h2.ret # ESP_OK -> h2
       [] h1.ret = ESP_OK /\ h2.ret = ESP_OK /\ h3.ret # ESP_OK -> h3
       [] h1.ret = ESP_OK /\ h2.ret = ESP_OK /\ h3.ret = ESP_OK
            /\ h4.ret # ESP_OK -> h4
       [] OTHER -> Ret([h4 EXCEPT !.init = TRUE, !.st.initialized = TRUE],
                       ESP_OK)

hardware_control_init(h, fail) ==
  IF h.init
    THEN Ret(h, ESP_OK)
    ELSE
      LET h0 == [h EXCEPT !.st =
                   [ZeroStatus EXCEPT
                      !.board_led_brightness = DEFAULT_LED_BRIGHTNESS,
                      !.touch_led_brightness = DEFAULT_LED_BRIGHTNESS,
                      !.usb_mux_target = USB_MUX_ESP32S3,
                      !.orin_power_state = POWER_STATE_UNKNOWN,
                      !.n305_power_state = POWER_STATE_UNKNOWN]]
          h1 == init_fan_pwm(h0, fail[1] # "fan")
          h2 == init_ws2812(h1, CASE fail[1] = "ws_board" -> "board"
                                  [] fail[1] = "ws_touch" -> "touch"
                                  [] OTHER -> "none")
          h3 == init_usb_mux_gpio(h2, IF fail[1] = "mux" THEN fail[2] ELSE 0)
          h4 == init_power_control_gpio(
                  h3, IF fail[1] = "power" THEN fail[2] ELSE 0)
      IN CASE h1.ret # ESP_OK -> h1
           [] h1.ret = ESP_OK /\ h2.ret # ESP_OK -> h2
           [] h1.ret = ESP_OK /\ h2.ret = ESP_OK /\ h3.ret # ESP_OK -> h3
           [] h1.ret = ESP_OK /\ h2.ret = ESP_OK /\ h3.ret = ESP_OK
                /\ h4.ret # ESP_OK -> h4
           [] OTHER -> Ret([h4 EXCEPT !.init = TRUE, !.st.initialized = TRUE],
                           ESP_OK)

hardware_control_deinit(h, outb, outt) ==
  IF ~h.init
    THEN Ret(h, ESP_OK)
    ELSE LET h1 == fan_stop(h)
             h2 == board_led_turn_off(h1, outb)
             h3 == touch_led_turn_off(h2, outt)
         IN Ret([h3 EXCEPT !.bstrip = FALSE, !.tstrip = FALSE,
                           !.init = FALSE, !.st.initialized = FALSE],
                ESP_OK)

hardware_control_is_initialized(h) == h.init

\* ------------------------------------------------------------ USB mux

ValidMuxTargets == {USB_MUX_ESP32S3, USB_MUX_AGX, USB_MUX_N305}

\* Mutant: the select codes of AGX and N305 are exchanged.
MuxSelect_exchanged(target) ==
  CASE target = USB_MUX_ESP32S3 -> <<GPIO_STATE_LOW, GPIO_STATE_LOW>>
    [] target = USB_MUX_AGX -> <<GPIO_STATE_HIGH, GPIO_STATE_HIGH>>
    [] target = USB_MUX_N305 -> <<GPIO_STATE_HIGH, GPIO_STATE_LOW>>

\* The switch of usb_mux_set_target: <<mux1_state, mux2_state>>.
MuxSelect(target) ==
  CASE target = USB_MUX_ESP32S3 -> <<GPIO_STATE_LOW, GPIO_STATE_LOW>>
    [] target = USB_MUX_AGX -> <<GPIO_STATE_HIGH, GPIO_STATE_LOW>>
    [] target = USB_MUX_N305 -> <<GPIO_STATE_HIGH, GPIO_STATE_HIGH>>

\* Entry of usb_mux_set_target up to its first pin write.
usb_mux_set_target(h, target) ==
  IF ~h.init
    THEN Return(h, ESP_ERR_INVALID_STATE)
    ELSE IF target \notin ValidMuxTargets
      THEN Return(h, ESP_ERR_INVALID_ARG)
      ELSE Goto(h, "mux1")

\* pc = "mux1": gpio_set_output(ESP32_MUX1_SEL, mux1_state)
usb_mux_write1(h, target, out) ==
  LET h1 == gpio_set_output(h, ESP32_MUX1_SEL, MuxSelect(target)[1], out)
  IN IF h1.ret # ESP_OK THEN Return(h1, h1.ret) ELSE Goto(h1, "mux2")

\* Mutant: the stored target is updated before the second select pin is
\* written.
usb_mux_write2_early_store(h, target, out) ==
  LET h1 == gpio_set_output([h EXCEPT !.st.usb_mux_target = target],
                            ESP32_MUX2_SEL, MuxSelect(target)[2], out)
  IN IF h1.ret # ESP_OK THEN Return(h1, h1.ret) ELSE Return(h1, ESP_OK)

\* pc = "mux2": gpio_set_output(ESP32_MUX2_SEL, mux2_state), then the update
\* of the stored target.
usb_mux_write2(h, target, out) ==
  LET h1 == gpio_set_output(h, ESP32_MUX2_SEL, MuxSelect(target)[2], out)
  IN IF h1.ret # ESP_OK
       THEN Return(h1, h1.ret)
       ELSE Return([h1 EXCEPT !.st.usb_mux_target = target], ESP_OK)

\* usb_mux_get_target(&target): <<returned code, *target>>; nonnull says the
\* pointer is not NULL, and *target is "unset" when nothing is stored.
usb_mux_get_target(h, nonnull) ==
  IF ~h.init
    THEN <<ESP_ERR_INVALID_STATE, "unset">>
    ELSE IF ~nonnull
      THEN <<ESP_ERR_INVALID_ARG, "unset">>
      ELSE <<ESP_OK, h.st.usb_mux_target>>

\* ------------------------------------------------------------ power sequencer

\* Mutant: the state is stored before the pin is written.
orin_power_on_store_first(h, out) ==
  IF ~h.init
    THEN Return(h, ESP_ERR_INVALID_STATE)
    ELSE LET h1 == gpio_set_output(
                     [h EXCEPT !.st.orin_power_state = POWER_STATE_ON],
                     ORIN_POWER_PIN, GPIO_STATE_LOW, out)
         IN IF h1.ret # ESP_OK THEN Return(h1, h1.ret) ELSE Return(h1, ESP_OK)

orin_power_on(h, out) ==
  IF ~h.init
    THEN Return(h, ESP_ERR_INVALID_STATE)
    ELSE LET h1 == gpio_set_output(h, ORIN_POWER_PIN, GPIO_STATE_LOW, out)
         IN IF h1.ret # ESP_OK
              THEN Return(h1, h1.ret)
              ELSE Return([h1 EXCEPT !.st.orin_power_state = POWER_STATE_ON],
                          ESP_OK)

orin_power_off(h, out) ==
  IF ~h.init
    THEN Return(h, ESP_ERR_INVALID_STATE)
    ELSE LET h1 == gpio_set_output(h, ORIN_POWER_PIN, GPIO_STATE_HIGH, out)
         IN IF h1.ret # ESP_OK
              THEN Return(h1, h1.ret)
              ELSE Return([h1 EXCEPT !.st.orin_power_state = POWER_STATE_OFF],
                          ESP_OK)

\* Entry of orin_reset up to its first pin write.
orin_reset(h) ==
  IF ~h.init THEN Return(h, ESP_ERR_INVALID_STATE) ELSE Goto(h, "reset_high")

\* pc = "reset_high": the reset pin goes high; the pulse delay follows.
orin_reset_high(h, out) ==
  LET h1 == gpio_set_output(h, ORIN_RESET_PIN, GPIO_STATE_HIGH, out)
  IN IF h1.ret # ESP_OK THEN Return(h1, h1.ret) ELSE Goto(h1, "reset_low")

\* Mutant: a failed write of the reset pin does not stop the caller.
orin_reset_low_unchecked(h, caller, out) ==
  LET h1 == gpio_set_output(h, ORIN_RESET_PIN, GPIO_STATE_LOW, out)
  IN IF caller = "orin_enter_recovery_mode"
       THEN Goto(h1, "recovery_low")
       ELSE Return(h1, ESP_OK)

\* pc = "reset_low": the reset pin goes low and orin_reset returns; inside
\* orin_enter_recovery_mode the caller goes on to step 3.
orin_reset_low(h, caller, out) ==
  LET h1 == gpio_set_output(h, ORIN_RESET_PIN, GPIO_STATE_LOW, out)
  IN IF h1.ret # ESP_OK
       THEN Return(h1, h1.ret)
       ELSE IF caller = "orin_enter_recovery_mode"
         THEN Goto(h1, "recovery_low")
         ELSE Return(h1, ESP_OK)

\* Entry of orin_enter_recovery_mode up to its first pin write.
orin_enter_recovery_mode(h) ==
  IF ~h.init
    THEN Return(h, ESP_ERR_INVALID_STATE)
    ELSE Goto(h, "recovery_high")

\* Mutant: the strap is released before the reset pulse, step 3 ahead of
\* step 2.
recovery_step1_released(h, ok) ==
  LET h1 == gpio_set_level(h, ORIN_RECOVERY_PIN, GPIO_STATE_HIGH, ok)
      h2 == gpio_set_level(h1, ORIN_RECOVERY_PIN, GPIO_STATE_LOW, ok)
  IN IF h1.ret # ESP_OK THEN Return(h1, h1.ret) ELSE orin_reset(h2)

\* pc = "recovery_high": step 1, gpio_set_level(ORIN_RECOVERY_PIN, HIGH),
\* the hold, and the entry of step 2's orin_reset.
recovery_step1(h, ok) ==
  LET h1 == gpio_set_level(h, ORIN_RECOVERY_PIN, GPIO_STATE_HIGH, ok)
  IN IF h1.ret # ESP_OK THEN Return(h1, h1.ret) ELSE orin_reset(h1)

\* pc = "recovery_low": step 3, gpio_set_level(ORIN_RECOVERY_PIN, 0), and
\* the entry of step 4's usb_mux_set_target(USB_MUX_AGX).
recovery_step3(h, ok) ==
  LET h1 == gpio_set_level(h, ORIN_RECOVERY_PIN, 0, ok)
  IN IF h1.ret # ESP_OK
       THEN Return(h1, h1.ret)
       ELSE usb_mux_set_target(h1, USB_MUX_AGX)

\* Entry of n305_power_toggle up to its first pin write.
n305_power_toggle(h) ==
  IF ~h.init
    THEN Return(h, ESP_ERR_INVALID_STATE)
    ELSE Goto(h, "n305_power_high")

n305_power_high(h, out) ==
  LET h1 == gpio_set_output(h, N305_POWER_BTN_PIN, GPIO_STATE_HIGH, out)
  IN IF h1.ret # ESP_OK THEN Return(h1, h1.ret) ELSE Goto(h1, "n305_power_low")

\* Mutant: only Off toggles to On; Unknown is treated like On.
n305_power_low_unknown_off(h, out) ==
  LET h1 == gpio_set_output(h, N305_POWER_BTN_PIN, GPIO_STATE_LOW, out)
  IN IF h1.ret # ESP_OK
       THEN Return(h1, h1.ret)
       ELSE Return(
              [h1 EXCEPT !.st.n305_power_state =
                 IF h1.st.n305_power_state = POWER_STATE_OFF
                   THEN POWER_STATE_ON
                   ELSE POWER_STATE_OFF],
              ESP_OK)

n305_power_low(h, out) ==
  LET h1 == gpio_set_output(h, N305_POWER_BTN_PIN, GPIO_STATE_LOW, out)
  IN IF h1.ret # ESP_OK
       THEN Return(h1, h1.ret)
       ELSE Return(
              [h1 EXCEPT !.st.n305_power_state =
                 IF h1.st.n305_power_state = POWER_STATE_ON
                   THEN POWER_STATE_OFF
                   ELSE POWER_STATE_ON],
              ESP_OK)

\* Entry of n305_reset up to its first pin write.
n305_reset(h) ==
  IF ~h.init
    THEN Return(h, ESP_ERR_INVALID_STATE)
    ELSE Goto(h, "n305_reset_high")

n305_reset_high(h, out) ==
  LET h1 == gpio_set_output(h, N305_RESET_PIN, GPIO_STATE_HIGH, out)
  IN IF h1.ret # ESP_OK THEN Return(h1, h1.ret) ELSE Goto(h1, "n305_reset_low")

\* Mutant: the pulse is never ended, the reset pin stays high.
n305_reset_low_skipped(h, out) == Return(h, ESP_OK)

\* Mutant: the reset pulse marks the module as powered on.
n305_reset_low_marks_on(h, out) ==
  LET h1 == gpio_set_output(h, N305_RESET_PIN, GPIO_STATE_LOW, out)
  IN IF h1.ret # ESP_OK
       THEN Return(h1, h1.ret)
       ELSE Return([h1 EXCEPT !.st.n305_power_state = POWER_STATE_ON], ESP_OK)

n305_reset_low(h, out) ==
  LET h1 == gpio_set_output(h, N305_RESET_PIN, GPIO_STATE_LOW, out)
  IN IF h1.ret # ESP_OK THEN Return(h1, h1.ret) ELSE Return(h1, ESP_OK)

\* orin_get_power_state(&state) / n305_get_power_state(&state):
\* <<returned code, *state>>.
orin_get_power_state(h, nonnull) ==
  IF ~h.init
    THEN <<ESP_ERR_INVALID_STATE, "unset">>
    ELSE IF ~nonnull
      THEN <<ESP_ERR_INVALID_ARG, "unset">>
      ELSE <<ESP_OK, h.st.orin_power_state>>

n305_get_power_state(h, nonnull) ==
  IF ~h.init
    THEN <<ESP_ERR_INVALID_STATE, "unset">>
    ELSE IF ~nonnull
      THEN <<ESP_ERR_INVALID_ARG, "unset">>
      ELSE <<ESP_OK, h.st.n305_power_state>>

\* hardware_get_status(&status): <<returned code, *status>>.
hardware_get_status(h, nonnull) ==
  IF ~nonnull
    THEN <<ESP_ERR_INVALID_ARG, "unset">>
    ELSE IF ~h.init
      THEN <<ESP_ERR_INVALID_STATE, "unset">>
      ELSE <<ESP_OK, h.st>>

\* ------------------------------------------------------------ system monitor

\* The device-interface state as one value.
DEV ==
  [init |-> dev_initialized,
   cfg |-> s_config,
   last |-> s_last_status,
   nvs |-> nvs,
   mon_init |-> mon_initialized,
   running |-> s_monitoring_running,
   count |-> s_monitor_count,
   warnings |-> s_warning_count,
   task |-> monitor_pc,
   handle |-> s_monitor_task_handle,
   exiting |-> exiting_tasks,
   bad_delete |-> invalid_delete]

SetDEV(d) ==
  /\ dev_initialized' = d.init
  /\ s_config' = d.cfg
  /\ s_last_status' = d.last
  /\ nvs' = d.nvs
  /\ mon_initialized' = d.mon_init
  /\ s_monitoring_running' = d.running
  /\ s_monitor_count' = d.count
  /\ s_warning_count' = d.warnings
  /\ monitor_pc' = d.task
  /\ s_monitor_task_handle' = d.handle
  /\ exiting_tasks' = d.exiting
  /\ invalid_delete' = d.bad_delete

\* system_monitor_start: task_ok says xTaskCreate returned pdPASS.
\* <<new state, returned code>>
system_monitor_start(d, task_ok) ==
  IF ~d.mon_init
    THEN <<d, ESP_ERR_INVALID_STATE>>
    ELSE IF d.running
      THEN <<d, ESP_OK>>
      ELSE IF ~task_ok
        THEN <<d, ESP_FAIL>>
        ELSE <<[d EXCEPT !.running = TRUE, !.task = "delay", !.handle = TRUE],
               ESP_OK>>

\* system_monitor_stop: the flag is cleared and the task, if its handle is
\* still set, is deleted wherever it stands.
system_monitor_stop(d) ==
  IF ~d.running
    THEN <<d, ESP_OK>>
    ELSE <<[d EXCEPT !.running = FALSE,
                     !.task = IF d.handle THEN "none" ELSE d.task,
                     !.handle = FALSE],
           ESP_OK>>

\* system_monitor_init with the device interface's configuration
\* (enable_auto_monitoring = true).
system_monitor_init(d, task_ok) ==
  IF d.mon_init
    THEN <<d, ESP_OK>>
    ELSE system_monitor_start([d EXCEPT !.mon_init = TRUE, !.count = 0,
                                        !.warnings = 0],
                              task_ok)

system_monitor_deinit(d) ==
  IF ~d.mon_init
    THEN <<d, ESP_OK>>
    ELSE LET d1 == IF d.running THEN system_monitor_stop(d)[1] ELSE d
         IN <<[d1 EXCEPT !.mon_init = FALSE], ESP_OK>>

\* ------------------------------------------------------------ device interface

\* A device_status_t after memset 0 (the fields the model follows).
ZeroDeviceStatus ==
  [hardware |-> ZeroStatus, hardware_available |-> FALSE,
   monitor_available |-> FALSE]

\* device_get_full_status(&status) on an initialized device interface.
device_get_full_status(h, d) ==
  LET hw_ok == d.cfg.enable_hardware_control /\ hardware_control_is_initialized(h)
      got == hardware_get_status(h, TRUE)
  IN [hardware |-> IF hw_ok /\ got[1] = ESP_OK THEN got[2] ELSE ZeroStatus,
      hardware_available |-> hw_ok /\ got[1] = ESP_OK,
      monitor_available |-> d.cfg.enable_system_monitor /\ d.mon_init]

\* Mutant: hardware control stays enabled when hardware_control_init fails.
device_interface_init_keep_enabled(h, d, config, hwfail, task_ok) ==
  IF d.init
    THEN [h |-> Return(h, ESP_OK), d |-> d]
    ELSE
      LET h1 == IF config.enable_hardware_control
                  THEN hardware_control_init(h, hwfail)
                  ELSE h
          m == IF config.enable_system_monitor
                 THEN system_monitor_init(d, task_ok)
                 ELSE <<d, ESP_OK>>
          mon_on == config.enable_system_monitor /\ m[2] = ESP_OK
      IN [h |-> Return(h1, ESP_OK),
          d |-> [m[1] EXCEPT
                   !.cfg = [enable_hardware_control |->
                              config.enable_hardware_control,
                            enable_system_monitor |-> mon_on],
                   !.init = TRUE]]

\* device_interface_init(config): config carries the two enable flags.
\* The result is [h |-> ..., d |-> ...]; h.ret is the returned code.
device_interface_init(h, d, config, hwfail, task_ok) ==
  IF d.init
    THEN [h |-> Return(h, ESP_OK), d |-> d]
    ELSE
      LET h1 == IF config.enable_hardware_control
                  THEN hardware_control_init(h, hwfail)
                  ELSE h
          hw_on == config.enable_hardware_control /\ h1.ret = ESP_OK
          m == IF config.enable_system_monitor
                 THEN system_monitor_init(d, task_ok)
                 ELSE <<d, ESP_OK>>
          mon_on == config.enable_system_monitor /\ m[2] = ESP_OK
      IN [h |-> Return(h1, ESP_OK),
          d |-> [m[1] EXCEPT
                   !.cfg = [enable_hardware_control |-> hw_on,
                            enable_system_monitor |-> mon_on],
                   !.init = TRUE]]

device_interface_deinit(h, d, outb, outt) ==
  IF ~d.init
    THEN [h |-> Return(h, ESP_OK), d |-> d]
    ELSE
      LET d1 == IF d.cfg.enable_system_monitor
                  THEN system_monitor_deinit(d)[1]
                  ELSE d
          h1 == IF d.cfg.enable_hardware_control
                  THEN hardware_control_deinit(h, outb, outt)
                  ELSE h
      IN [h |-> Return(h1, ESP_OK), d |-> [d1 EXCEPT !.init = FALSE]]

\* Mutant: the LED colours are applied before the fan speed.
device_quick_setup_leds_first(h, d, fan_speed, board_led_color, touch_led_color, outb, outt) ==
  IF ~d.init
    THEN Return(h, ESP_ERR_INVALID_STATE)
    ELSE IF ~d.cfg.enable_hardware_control
      THEN Return(h, ESP_OK)
      ELSE
        LET h1 == board_led_set_color(h, board_led_color, outb)
            h2 == touch_led_set_color(h1, touch_led_color, outt)
            h3 == fan_set_speed(h2, fan_speed)
        IN CASE h1.ret # ESP_OK -> h1
             [] h1.ret = ESP_OK /\ h2.ret # ESP_OK -> h2
             [] h1.ret = ESP_OK /\ h2.ret = ESP_OK /\ h3.ret # ESP_OK -> h3
             [] OTHER -> Return(h3, ESP_OK)

device_quick_setup(h, d, fan_speed, board_led_color, touch_led_color, outb, outt) ==
  IF ~d.init
    THEN Return(h, ESP_ERR_INVALID_STATE)
    ELSE IF ~d.cfg.enable_hardware_control
      THEN Return(h, ESP_OK)
      ELSE
        LET h1 == fan_set_speed(h, fan_speed)
            h2 == board_led_set_color(h1, board_led_color, outb)
            h3 == touch_led_set_color(h2, touch_led_color, outt)
        IN CASE h1.ret # ESP_OK -> h1
             [] h1.ret = ESP_OK /\ h2.ret # ESP_OK -> h2
             [] h1.ret = ESP_OK /\ h2.ret = ESP_OK /\ h3.ret # ESP_OK -> h3
             [] OTHER -> Return(h3, ESP_OK)

\* Mutant: the shutdown stops at the first step that fails and returns its
\* error.
device_shutdown_all_abort(h, d, outb, outt) ==
  IF ~d.init
    THEN Return(h, ESP_ERR_INVALID_STATE)
    ELSE IF ~d.cfg.enable_hardware_control
      THEN Return(h, ESP_OK)
      ELSE
        LET h1 == fan_stop(h)
            h2 == board_led_turn_off(h1, outb)
            h3 == touch_led_turn_off(h2, outt)
        IN CASE h1.ret # ESP_OK -> h1
             [] h1.ret = ESP_OK /\ h2.ret # ESP_OK -> h2
             [] OTHER -> h3

device_shutdown_all(h, d, outb, outt) ==
  IF ~d.init
    THEN Return(h, ESP_ERR_INVALID_STATE)
    ELSE IF ~d.cfg.enable_hardware_control
      THEN Return(h, ESP_OK)
      ELSE Return(touch_led_turn_off(board_led_turn_off(fan_stop(h), outb),
                                     outt),
                  ESP_OK)

device_reset_to_default(h, d, outb, outt) ==
  IF ~d.init
    THEN Return(h, ESP_ERR_INVALID_STATE)
    ELSE device_quick_setup(h, d, 0, LED_COLOR_OFF, LED_COLOR_OFF, outb, outt)

\* Mutant: a snapshot that is already there is kept.
device_enter_sleep_mode_keep_snapshot(h, d, outb, outt) ==
  IF ~d.init
    THEN [h |-> Return(h, ESP_ERR_INVALID_STATE), d |-> d]
    ELSE
      LET d1 == IF d.last.hardware_available
                  THEN d
                  ELSE [d EXCEPT !.last = device_get_full_status(h, d)]
          h1 == device_shutdown_all(h, d1, outb, outt)
          d2 == IF d1.cfg.enable_system_monitor /\ d1.running
                  THEN system_monitor_stop(d1)[1]
                  ELSE d1
      IN [h |-> Return(h1, ESP_OK), d |-> d2]

device_enter_sleep_mode(h, d, outb, outt) ==
  IF ~d.init
    THEN [h |-> Return(h, ESP_ERR_INVALID_STATE), d |-> d]
    ELSE
      LET d1 == [d EXCEPT !.last = device_get_full_status(h, d)]
          h1 == device_shutdown_all(h, d1, outb, outt)
          d2 == IF d1.cfg.enable_system_monitor /\ d1.running
                  THEN system_monitor_stop(d1)[1]
                  ELSE d1
      IN [h |-> Return(h1, ESP_OK), d |-> d2]

\* Mutant: the snapshot is used up by the wake-up.
device_wake_up_clear_snapshot(h, d, task_ok, outs) ==
  IF ~d.init
    THEN [h |-> Return(h, ESP_ERR_INVALID_STATE), d |-> d]
    ELSE
      LET d1 == IF d.cfg.enable_system_monitor /\ ~d.running
                  THEN system_monitor_start(d, task_ok)[1]
                  ELSE d
          last == d.last.hardware
          h1 == fan_set_speed(h, last.fan_speed)
          h2 == board_led_set_color(h1, last.board_led_color, outs[1])
          h3 == board_led_set_brightness(h2, last.board_led_brightness, outs[2])
          h4 == touch_led_set_color(h3, last.touch_led_color, outs[3])
          h5 == touch_led_set_brightness(h4, last.touch_led_brightness, outs[4])
      IN [h |-> IF d.cfg.enable_hardware_control /\ d.last.hardware_available
                  THEN Return(h5, ESP_OK)
                  ELSE Return(h, ESP_OK),
          d |-> [d1 EXCEPT !.last = ZeroDeviceStatus]]

\* Mutant: the touch LED is restored by its brightness alone, its colour
\* stays as the shutdown left it.
device_wake_up_no_touch_color(h, d, task_ok, outs) ==
  IF ~d.init
    THEN [h |-> Return(h, ESP_ERR_INVALID_STATE), d |-> d]
    ELSE
      LET d1 == IF d.cfg.enable_system_monitor /\ ~d.running
                  THEN system_monitor_start(d, task_ok)[1]
                  ELSE d
          last == d.last.hardware
          h1 == fan_set_speed(h, last.fan_speed)
          h2 == board_led_set_color(h1, last.board_led_color, outs[1])
          h3 == board_led_set_brightness(h2, last.board_led_brightness, outs[2])
          h4 == touch_led_set_brightness(h3, last.touch_led_brightness, outs[4])
      IN [h |-> IF d.cfg.enable_hardware_control /\ d.last.hardware_available
                  THEN Return(h4, ESP_OK)
                  ELSE Return(h, ESP_OK),
          d |-> d1]

\* outs: the strip driver's outcome in each of the four LED calls.
device_wake_up(h, d, task_ok, outs) ==
  IF ~d.init
    THEN [h |-> Return(h, ESP_ERR_INVALID_STATE), d |-> d]
    ELSE
      LET d1 == IF d.cfg.enable_system_monitor /\ ~d.running
                  THEN system_monitor_start(d, task_ok)[1]
                  ELSE d
          last == d.last.hardware
          h1 == fan_set_speed(h, last.fan_speed)
          h2 == board_led_set_color(h1, last.board_led_color, outs[1])
          h3 == board_led_set_brightness(h2, last.board_led_brightness, outs[2])
          h4 == touch_led_set_color(h3, last.touch_led_color, outs[3])
          h5 == touch_led_set_brightness(h4, last.touch_led_brightness, outs[4])
      IN [h |-> IF d.cfg.enable_hardware_control /\ d.last.hardware_available
                  THEN Return(h5, ESP_OK)
                  ELSE Return(h, ESP_OK),
          d |-> d1]

NvsKeys ==
  <<"fan_speed", "board_led_r", "board_led_g", "board_led_b", "board_bright",
    "touch_led_r", "touch_led_g", "touch_led_b", "touch_bright">>

\* nvs_get_u8(handle, key, &value): value keeps its default when the key is
\* missing.
nvs_get_u8(kv, key, default) == IF key \in DOMAIN kv THEN kv[key] ELSE default

\* The values save_hardware_config_to_nvs writes, in the order of NvsKeys.
SavedValues(st) ==
  <<st.fan_speed, st.board_led_color.red, st.board_led_color.green,
    st.board_led_color.blue, st.board_led_brightness, st.touch_led_color.red,
    st.touch_led_color.green, st.touch_led_color.blue,
    st.touch_led_brightness>>

\* save_hardware_config_to_nvs: open_ok says nvs_open succeeded; the k-th
\* nvs_set_u8 fails (k = 0: none; k = Len(NvsKeys) + 1: the commit fails).
save_hardware_config_to_nvs(h, d, open_ok, k) ==
  IF ~d.cfg.enable_hardware_control
    THEN [h |-> Return(h, ESP_OK), d |-> d]
    ELSE IF ~open_ok
      THEN [h |-> Return(h, ESP_FAIL), d |-> d]
      ELSE
        LET got == hardware_get_status(h, TRUE)
            n == IF k = 0 THEN Len(NvsKeys) ELSE k - 1
            vals == SavedValues(got[2])
            kv == [key \in DOMAIN d.nvs \cup {NvsKeys[i] : i \in 1..n} |->
                     IF \E i \in 1..n : NvsKeys[i] = key
                       THEN vals[CHOOSE i \in 1..n : NvsKeys[i] = key]
                       ELSE d.nvs[key]]
        IN IF got[1] # ESP_OK
             THEN [h |-> Return(h, got[1]), d |-> d]
             ELSE [h |-> Return(h, IF k = 0 THEN ESP_OK ELSE ESP_FAIL),
                   d |-> [d EXCEPT !.nvs = kv]]

device_save_config(h, d, open_ok, k) ==
  IF ~d.init
    THEN [h |-> Return(h, ESP_ERR_INVALID_STATE), d |-> d]
    ELSE save_hardware_config_to_nvs(h, d, open_ok, k)

\* load_hardware_config_from_nvs: outs as in device_wake_up.
load_hardware_config_from_nvs(h, d, open_ok, outs) ==
  IF ~d.cfg.enable_hardware_control
    THEN Return(h, ESP_OK)
    ELSE IF ~open_ok
      THEN Return(h, ESP_ERR_NVS_NOT_FOUND)
      ELSE
        LET fan_speed == nvs_get_u8(d.nvs, "fan_speed", 0)
            board_color == led_color_t(nvs_get_u8(d.nvs, "board_led_r", 0),
                                       nvs_get_u8(d.nvs, "board_led_g", 0),
                                       nvs_get_u8(d.nvs, "board_led_b", 0))
            board_brightness == nvs_get_u8(d.nvs, "board_bright", 50)
            touch_color == led_color_t(nvs_get_u8(d.nvs, "touch_led_r", 0),
                                       nvs_get_u8(d.nvs, "touch_led_g", 0),
                                       nvs_get_u8(d.nvs, "touch_led_b", 0))
            touch_brightness == nvs_get_u8(d.nvs, "touch_bright", 50)
            h1 == fan_set_speed(h, fan_speed)
            h2 == board_led_set_brightness(h1, board_brightness, outs[1])
            h3 == board_led_set_color(h2, board_color, outs[2])
            h4 == touch_led_set_brightness(h3, touch_brightness, outs[3])
            h5 == touch_led_set_color(h4, touch_color, outs[4])
        IN Return(h5, ESP_OK)

device_load_config(h, d, open_ok, outs) ==
  IF ~d.init
    THEN Return(h, ESP_ERR_INVALID_STATE)
    ELSE load_hardware_config_from_nvs(h, d, open_ok, outs)

\* ------------------------------------------------------------ initial state

\* What the NVS namespace may hold at boot: nothing, a saved configuration,
\* or bytes that no save of this firmware wrote.
NvsInit ==
  {<<>>,
   [fan_speed |-> 30, board_led_r |-> 255, board_bright |-> 80],
   [fan_speed |-> 200, board_bright |-> 255, touch_led_b |-> 255,
    touch_bright |-> 101]}

InitHardware ==
  /\ s_initialized = FALSE
  /\ s_hardware_status = ZeroStatus
  /\ s_board_led_strip = FALSE
  /\ s_touch_led_strip = FALSE
  /\ board_pixels = ClearPixels(BOARD_WS2812_NUM)
  /\ touch_pixels = ClearPixels(TOUCH_WS2812_NUM)
  /\ fan_duty = 0
  /\ gpio_level = [p \in Pins |-> 0]
  /\ gpio_mode = [p \in Pins |-> "reset"]
  /\ pc = "idle"
  /\ call = "none"
  /\ arg = 0
  /\ ret = "none"
  /\ trace = <<>>

InitDevice ==
  /\ dev_initialized = FALSE
  /\ s_config = [enable_hardware_control |-> FALSE,
                 enable_system_monitor |-> FALSE]
  /\ s_last_status = ZeroDeviceStatus
  /\ mon_initialized = FALSE
  /\ s_monitoring_running = FALSE
  /\ s_monitor_count = 0
  /\ s_warning_count = 0
  /\ monitor_pc = "none"
  /\ s_monitor_task_handle = FALSE
  /\ exiting_tasks = 0
  /\ invalid_delete = "none"

\* ------------------------------------------------------------ actions

\* Cycles of monitor_task followed in one run.
MaxMonitorCycles == 2

\* The console task takes a command at the prompt and runs it.
Idle == pc = "idle"

\* A single-step operation: it runs to its return.
Done(h) == [h EXCEPT !.pc = "done"]

Call(op, a) == call' = op /\ arg' = a

\* Back at the prompt: the result has been printed.
ConsolePrompt ==
  /\ pc = "done"
  /\ pc' = "idle"
  /\ call' = "none"
  /\ arg' = 0
  /\ ret' = "none"
  /\ trace' = <<>>
  /\ UNCHANGED <<s_initialized, s_hardware_status, s_board_led_strip,
                 s_touch_led_strip, board_pixels, touch_pixels, fan_duty,
                 gpio_level, gpio_mode, devvars, driver_faults>>

HardwareControlInit ==
  /\ Idle
  /\ \E fail \in InitFailures :
       /\ Call("hardware_control_init", 0)
       /\ SetHW(Done(hardware_control_init(HW, fail)))
  /\ UNCHANGED <<devvars, driver_faults>>

HardwareControlDeinit ==
  /\ Idle
  /\ \E outb \in LedOutcomes(BOARD_WS2812_NUM),
        outt \in LedOutcomes(TOUCH_WS2812_NUM) :
       /\ Call("hardware_control_deinit", 0)
       /\ SetHW(Done(hardware_control_deinit(HW, outb, outt)))
  /\ UNCHANGED <<devvars, driver_faults>>

FanSetSpeed(speed) ==
  /\ Idle
  /\ Call("fan_set_speed", speed)
  /\ SetHW(Done(fan_set_speed(HW, speed)))
  /\ UNCHANGED <<devvars, driver_faults>>

FanStart ==
  /\ Idle
  /\ Call("fan_start", 0)
  /\ SetHW(Done(fan_start(HW)))
  /\ UNCHANGED <<devvars, driver_faults>>

FanStop ==
  /\ Idle
  /\ Call("fan_stop", 0)
  /\ SetHW(Done(fan_stop(HW)))
  /\ UNCHANGED <<devvars, driver_faults>>

BoardLedSetColor(color) ==
  /\ Idle
  /\ \E out \in LedOutcomes(BOARD_WS2812_NUM) :
       /\ Call("board_led_set_color", color)
       /\ SetHW(Done(board_led_set_color(HW, color, out)))
  /\ UNCHANGED <<devvars, driver_faults>>

BoardLedSetBrightness(brightness) ==
  /\ Idle
  /\ \E out \in LedOutcomes(BOARD_WS2812_NUM) :
       /\ Call("board_led_set_brightness", brightness)
       /\ SetHW(Done(board_led_set_brightness(HW, brightness, out)))
  /\ UNCHANGED <<devvars, driver_faults>>

BoardLedSetEffect(effect) ==
  /\ Idle
  /\ \E out \in LedOutcomes(BOARD_WS2812_NUM) :
       /\ Call("board_led_set_effect", effect)
       /\ SetHW(Done(board_led_set_effect(HW, effect, out)))
  /\ UNCHANGED <<devvars, driver_faults>>

BoardLedTurnOff ==
  /\ Idle
  /\ \E out \in LedOutcomes(BOARD_WS2812_NUM) :
       /\ Call("board_led_turn_off", 0)
       /\ SetHW(Done(board_led_turn_off(HW, out)))
  /\ UNCHANGED <<devvars, driver_faults>>

TouchLedSetColor(color) ==
  /\ Idle
  /\ \E out \in LedOutcomes(TOUCH_WS2812_NUM) :
       /\ Call("touch_led_set_color", color)
       /\ SetHW(Done(touch_led_set_color(HW, color, out)))
  /\ UNCHANGED <<devvars, driver_faults>>

TouchLedSetBrightness(brightness) ==
  /\ Idle
  /\ \E out \in LedOutcomes(TOUCH_WS2812_NUM) :
       /\ Call("touch_led_set_brightness", brightness)
       /\ SetHW(Done(touch_led_set_brightness(HW, brightness, out)))
  /\ UNCHANGED <<devvars, driver_faults>>

TouchLedTurnOff ==
  /\ Idle
  /\ \E out \in LedOutcomes(TOUCH_WS2812_NUM) :
       /\ Call("touch_led_turn_off", 0)
       /\ SetHW(Done(touch_led_turn_off(HW, out)))
  /\ UNCHANGED <<devvars, driver_faults>>

GpioSetOutput(pin, state) ==
  /\ Idle
  /\ \E out \in GpioOutcomes :
       /\ Call("gpio_set_output", <<pin, state>>)
       /\ SetHW(Done(gpio_set_output(HW, pin, state, out)))
  /\ UNCHANGED <<devvars, driver_faults>>

GpioToggleOutput(pin) ==
  /\ Idle
  /\ \E out \in GpioOutcomes :
       /\ Call("gpio_toggle_output", pin)
       /\ SetHW(Done(gpio_toggle_output(HW, pin, out)))
  /\ UNCHANGED <<devvars, driver_faults>>

GpioReadInputMode(pin) ==
  /\ Idle
  /\ \E ok \in GpioCallOk :
       /\ Call("gpio_read_input_mode", pin)
       /\ SetHW(Done(gpio_read_input_mode(HW, pin, ok)))
  /\ UNCHANGED <<devvars, driver_faults>>

UsbMuxSetTarget(target) ==
  /\ Idle
  /\ Call("usb_mux_set_target", target)
  /\ SetHW(usb_mux_set_target(HW, target))
  /\ UNCHANGED <<devvars, driver_faults>>

\* Inside orin_enter_recovery_mode the target is USB_MUX_AGX.
MuxTargetArg == IF call = "usb_mux_set_target" THEN arg ELSE USB_MUX_AGX

UsbMuxWrite1 ==
  /\ pc = "mux1"
  /\ \E out \in GpioOutcomes : SetHW(usb_mux_write1(HW, MuxTargetArg, out))
  /\ UNCHANGED <<call, arg, devvars, driver_faults>>

UsbMuxWrite2 ==
  /\ pc = "mux2"
  /\ \E out \in GpioOutcomes : SetHW(usb_mux_write2(HW, MuxTargetArg, out))
  /\ UNCHANGED <<call, arg, devvars, driver_faults>>

\* A read through an accessor: code is what the accessor returns.
Read(op, a, code) ==
  /\ Idle
  /\ Call(op, a)
  /\ SetHW(Return(HW, code))
  /\ UNCHANGED <<devvars, driver_faults>>

UsbMuxGetTarget ==
  \E nonnull \in BOOLEAN :
    Read("usb_mux_get_target", nonnull, usb_mux_get_target(HW, nonnull)[1])

OrinGetPowerState ==
  \E nonnull \in BOOLEAN :
    Read("orin_get_power_state", nonnull, orin_get_power_state(HW, nonnull)[1])

N305GetPowerState ==
  \E nonnull \in BOOLEAN :
    Read("n305_get_power_state", nonnull, n305_get_power_state(HW, nonnull)[1])

HardwareGetStatus ==
  \E nonnull \in BOOLEAN :
    Read("hardware_get_status", nonnull, hardware_get_status(HW, nonnull)[1])

OrinPowerOn ==
  /\ Idle
  /\ \E out \in GpioOutcomes :
       /\ Call("orin_power_on", 0)
       /\ SetHW(orin_power_on(HW, out))
  /\ UNCHANGED <<devvars, driver_faults>>

OrinPowerOff ==
  /\ Idle
  /\ \E out \in GpioOutcomes :
       /\ Call("orin_power_off", 0)
       /\ SetHW(orin_power_off(HW, out))
  /\ UNCHANGED <<devvars, driver_faults>>

OrinReset ==
  /\ Idle
  /\ Call("orin_reset", 0)
  /\ SetHW(orin_reset(HW))
  /\ UNCHANGED <<devvars, driver_faults>>

OrinResetHigh ==
  /\ pc = "reset_high"
  /\ \E out \in GpioOutcomes : SetHW(orin_reset_high(HW, out))
  /\ UNCHANGED <<call, arg, devvars, driver_faults>>

OrinResetLow ==
  /\ pc = "reset_low"
  /\ \E out \in GpioOutcomes : SetHW(orin_reset_low(HW, call, out))
  /\ UNCHANGED <<call, arg, devvars, driver_faults>>

OrinEnterRecoveryMode ==
  /\ Idle
  /\ Call("orin_enter_recovery_mode", 0)
  /\ SetHW(orin_enter_recovery_mode(HW))
  /\ UNCHANGED <<devvars, driver_faults>>

RecoveryStep1 ==
  /\ pc = "recovery_high"
  /\ \E ok \in GpioCallOk : SetHW(recovery_step1(HW, ok))
  /\ UNCHANGED <<call, arg, devvars, driver_faults>>

RecoveryStep3 ==
  /\ pc = "recovery_low"
  /\ \E ok \in GpioCallOk : SetHW(recovery_step3(HW, ok))
  /\ UNCHANGED <<call, arg, devvars, driver_faults>>

N305PowerToggle ==
  /\ Idle
  /\ Call("n305_power_toggle", 0)
  /\ SetHW(n305_power_toggle(HW))
  /\ UNCHANGED <<devvars, driver_faults>>

N305PowerHigh ==
  /\ pc = "n305_power_high"
  /\ \E out \in GpioOutcomes : SetHW(n305_power_high(HW, out))
  /\ UNCHANGED <<call, arg, devvars, driver_faults>>

N305PowerLow ==
  /\ pc = "n305_power_low"
  /\ \E out \in GpioOutcomes : SetHW(n305_power_low(HW, out))
  /\ UNCHANGED <<call, arg, devvars, driver_faults>>

N305Reset ==
  /\ Idle
  /\ Call("n305_reset", 0)
  /\ SetHW(n305_reset(HW))
  /\ UNCHANGED <<devvars, driver_faults>>

N305ResetHigh ==
  /\ pc = "n305_reset_high"
  /\ \E out \in GpioOutcomes : SetHW(n305_reset_high(HW, out))
  /\ UNCHANGED <<call, arg, devvars, driver_faults>>

N305ResetLow ==
  /\ pc = "n305_reset_low"
  /\ \E out \in GpioOutcomes : SetHW(n305_reset_low(HW, out))
  /\ UNCHANGED <<call, arg, devvars, driver_faults>>

\* ---- device interface

DeviceConfigs ==
  {[enable_hardware_control |-> TRUE, enable_system_monitor |-> TRUE],
   [enable_hardware_control |-> FALSE, enable_system_monitor |-> TRUE]}

\* Whether xTaskCreate succeeds, whether nvs_open succeeds, and which NVS
\* write of a save fails.
TaskOk == IF "task" \in driver_faults THEN BOOLEAN ELSE {TRUE}
NvsOpenOk == IF "nvs" \in driver_faults THEN BOOLEAN ELSE {TRUE}
NvsSaveFailures ==
  IF "nvs" \in driver_faults THEN {0, 1, 5, Len(NvsKeys) + 1} ELSE {0}

AllLedOutcomes ==
  {<<o1, o2, o3, o4>> :
     o1 \in LedOutcomes(BOARD_WS2812_NUM), o2 \in LedOutcomes(BOARD_WS2812_NUM),
     o3 \in LedOutcomes(TOUCH_WS2812_NUM), o4 \in LedOutcomes(TOUCH_WS2812_NUM)}

DeviceInterfaceInit ==
  /\ Idle
  /\ \E config \in DeviceConfigs, hwfail \in InitFailures, task_ok \in TaskOk :
       LET r == device_interface_init(HW, DEV, config, hwfail, task_ok)
       IN /\ Call("device_interface_init", config)
          /\ SetHW(r.h)
          /\ SetDEV(r.d)
  /\ UNCHANGED driver_faults

DeviceInterfaceDeinit ==
  /\ Idle
  /\ \E outb \in LedOutcomes(BOARD_WS2812_NUM),
        outt \in LedOutcomes(TOUCH_WS2812_NUM) :
       LET r == device_interface_deinit(HW, DEV, outb, outt)
       IN /\ Call("device_interface_deinit", 0)
          /\ SetHW(r.h)
          /\ SetDEV(r.d)
  /\ UNCHANGED driver_faults

DeviceQuickSetup(fan_speed, board_led_color, touch_led_color) ==
  /\ Idle
  /\ \E outb \in LedOutcomes(BOARD_WS2812_NUM),
        outt \in LedOutcomes(TOUCH_WS2812_NUM) :
       /\ Call("device_quick_setup",
               <<fan_speed, board_led_color, touch_led_color>>)
       /\ SetHW(Done(device_quick_setup(HW, DEV, fan_speed, board_led_color,
                                        touch_led_color, outb, outt)))
  /\ UNCHANGED <<devvars, driver_faults>>

DeviceShutdownAll ==
  /\ Idle
  /\ \E outb \in LedOutcomes(BOARD_WS2812_NUM),
        outt \in LedOutcomes(TOUCH_WS2812_NUM) :
       /\ Call("device_shutdown_all", 0)
       /\ SetHW(Done(device_shutdown_all(HW, DEV, outb, outt)))
  /\ UNCHANGED <<devvars, driver_faults>>

DeviceResetToDefault ==
  /\ Idle
  /\ \E outb \in LedOutcomes(BOARD_WS2812_NUM),
        outt \in LedOutcomes(TOUCH_WS2812_NUM) :
       /\ Call("device_reset_to_default", 0)
       /\ SetHW(Done(device_reset_to_default(HW, DEV, outb, outt)))
  /\ UNCHANGED <<devvars, driver_faults>>

DeviceEnterSleepMode ==
  /\ Idle
  /\ \E outb \in LedOutcomes(BOARD_WS2812_NUM),
        outt \in LedOutcomes(TOUCH_WS2812_NUM) :
       LET r == device_enter_sleep_mode(HW, DEV, outb, outt)
       IN /\ Call("device_enter_sleep_mode", 0)
          /\ SetHW(r.h)
          /\ SetDEV(r.d)
  /\ UNCHANGED driver_faults

DeviceWakeUp ==
  /\ Idle
  /\ \E task_ok \in TaskOk, outs \in AllLedOutcomes :
       LET r == device_wake_up(HW, DEV, task_ok, outs)
       IN /\ Call("device_wake_up", 0)
          /\ SetHW(r.h)
          /\ SetDEV(r.d)
  /\ UNCHANGED driver_faults

DeviceSaveConfig ==
  /\ Idle
  /\ \E open_ok \in NvsOpenOk, k \in NvsSaveFailures :
       LET r == device_save_config(HW, DEV, open_ok, k)
       IN /\ Call("device_save_config", 0)
          /\ SetHW(r.h)
          /\ SetDEV(r.d)
  /\ UNCHANGED driver_faults

DeviceLoadConfig ==
  /\ Idle
  /\ \E open_ok \in NvsOpenOk, outs \in AllLedOutcomes :
       /\ Call("device_load_config", 0)
       /\ SetHW(Done(device_load_config(HW, DEV, open_ok, outs)))
  /\ UNCHANGED <<devvars, driver_faults>>

SystemMonitorStart ==
  /\ Idle
  /\ \E task_ok \in TaskOk :
       LET r == system_monitor_start(DEV, task_ok)
       IN /\ Call("system_monitor_start", 0)
          /\ SetHW(Return(HW, r[2]))
          /\ SetDEV(r[1])
  /\ UNCHANGED driver_faults

SystemMonitorStop ==
  /\ Idle
  /\ LET r == system_monitor_stop(DEV)
     IN /\ Call("system_monitor_stop", 0)
        /\ SetHW(Return(HW, r[2]))
        /\ SetDEV(r[1])
  /\ UNCHANGED driver_faults

\* What monitor_task never assigns.
MonitorFrame ==
  UNCHANGED <<hwvars, call, arg, dev_initialized, s_config, s_last_status, nvs,
              mon_initialized, s_monitoring_running, s_monitor_task_handle,
              exiting_tasks, invalid_delete, driver_faults>>

\* monitor_task returns from vTaskDelayUntil: it ends when the flag is
\* cleared, else it counts the cycle.
MonitorWake ==
  /\ monitor_pc = "delay"
  /\ s_monitoring_running => s_monitor_count < MaxMonitorCycles
  /\ IF s_monitoring_running
       THEN /\ s_monitor_count' = s_monitor_count + 1
            /\ monitor_pc' = "check"
       ELSE /\ s_monitor_count' = s_monitor_count
            /\ monitor_pc' = "exit"
  /\ UNCHANGED s_warning_count
  /\ MonitorFrame

\* monitor_task compares the free heap with the threshold.
MonitorCheck ==
  /\ monitor_pc = "check"
  /\ \E low \in BOOLEAN :
       IF low
         THEN /\ s_warning_count' = s_warning_count + 1
              /\ monitor_pc' = "callback"
         ELSE /\ s_warning_count' = s_warning_count
              /\ monitor_pc' = "delay"
  /\ UNCHANGED s_monitor_count
  /\ MonitorFrame

\* Mutant: the warning handler switches the fan off.
MonitorCallback_fan_off ==
  /\ monitor_pc = "callback"
  /\ monitor_pc' = "delay"
  /\ s_hardware_status' = [s_hardware_status EXCEPT !.fan_speed = 0]
  /\ fan_duty' = 0
  /\ UNCHANGED <<s_monitor_count, s_warning_count>>
  /\ UNCHANGED <<s_initialized, s_board_led_strip, s_touch_led_strip,
                 board_pixels, touch_pixels, gpio_level, gpio_mode, trace, ret,
                 pc, call, arg, dev_initialized, s_config, s_last_status, nvs,
                 mon_initialized, s_monitoring_running, s_monitor_task_handle,
                 exiting_tasks, invalid_delete, driver_faults>>

\* warning_cb: internal_memory_warning_callback passes the event to the
\* registered handler, which prints it.
MonitorCallback ==
  /\ monitor_pc = "callback"
  /\ monitor_pc' = "delay"
  /\ UNCHANGED <<s_monitor_count, s_warning_count>>
  /\ MonitorFrame

MonitorTask == MonitorWake \/ MonitorCheck \/ MonitorCallback

\* Monitor tasks that may stand between clearing the handle and deleting
\* themselves at the same time.
MaxExitingTasks == 1

\* What the steps of the system monitor's own interface leave alone.
MonitorApiFrame ==
  UNCHANGED <<s_initialized, s_hardware_status, s_board_led_strip,
              s_touch_led_strip, board_pixels, touch_pixels, fan_duty,
              gpio_level, gpio_mode, trace, dev_initialized, s_config,
              s_last_status, nvs, driver_faults>>

\* xTaskCreate(monitor_task, ..., &s_monitor_task_handle): the handle is
\* stored and the new task stands before its first test of the flag.
CreateMonitorTask ==
  \E task_ok \in TaskOk :
    IF task_ok
      THEN /\ s_monitor_task_handle' = TRUE
           /\ monitor_pc' = "started"
           /\ pc' = "start_flag"
           /\ ret' = ret
      ELSE /\ pc' = "done"
           /\ ret' = ESP_FAIL
           /\ UNCHANGED <<s_monitor_task_handle, monitor_pc>>

\* system_monitor_init up to the xTaskCreate of system_monitor_start.
MonitorInitSteps ==
  /\ Idle
  /\ Call("system_monitor_init", 0)
  /\ IF mon_initialized
       THEN /\ pc' = "done"
            /\ ret' = ESP_OK
            /\ UNCHANGED <<mon_initialized, s_monitor_count, s_warning_count,
                           s_monitor_task_handle, monitor_pc>>
       ELSE /\ mon_initialized' = TRUE
            /\ s_monitor_count' = 0
            /\ s_warning_count' = 0
            /\ CreateMonitorTask
  /\ UNCHANGED <<s_monitoring_running, exiting_tasks, invalid_delete>>
  /\ MonitorApiFrame

\* system_monitor_start up to its xTaskCreate.
StartCreateTask ==
  /\ Idle
  /\ Call("system_monitor_start", 0)
  /\ IF ~mon_initialized \/ s_monitoring_running
       THEN /\ pc' = "done"
            /\ ret' = IF mon_initialized THEN ESP_OK ELSE ESP_ERR_INVALID_STATE
            /\ UNCHANGED <<s_monitor_task_handle, monitor_pc>>
       ELSE CreateMonitorTask
  /\ UNCHANGED <<mon_initialized, s_monitoring_running, s_monitor_count,
                 s_warning_count, exiting_tasks, invalid_delete>>
  /\ MonitorApiFrame

\* system_monitor_start: s_monitoring_running = true; return ESP_OK.
StartSetRunning ==
  /\ pc = "start_flag"
  /\ s_monitoring_running' = TRUE
  /\ pc' = "done"
  /\ ret' = ESP_OK
  /\ UNCHANGED <<mon_initialized, s_monitor_count, s_warning_count, monitor_pc,
                 s_monitor_task_handle, exiting_tasks, invalid_delete, call,
                 arg>>
  /\ MonitorApiFrame

\* system_monitor_stop returns; inside system_monitor_deinit the component
\* is then marked not initialized.
StopReturn ==
  /\ pc' = "done"
  /\ ret' = ESP_OK
  /\ mon_initialized' =
       IF call = "system_monitor_deinit" THEN FALSE ELSE mon_initialized

\* system_monitor_stop up to s_monitoring_running = false.
StopClearRunning ==
  /\ Idle
  /\ Call("system_monitor_stop", 0)
  /\ IF s_monitoring_running
       THEN /\ s_monitoring_running' = FALSE
            /\ pc' = "stop_check"
            /\ ret' = ret
       ELSE /\ pc' = "done"
            /\ ret' = ESP_OK
            /\ UNCHANGED s_monitoring_running
  /\ UNCHANGED <<mon_initialized, s_monitor_count, s_warning_count, monitor_pc,
                 s_monitor_task_handle, exiting_tasks, invalid_delete>>
  /\ MonitorApiFrame

\* system_monitor_deinit up to the s_monitoring_running = false of its
\* system_monitor_stop.
MonitorDeinitSteps ==
  /\ Idle
  /\ Call("system_monitor_deinit", 0)
  /\ IF mon_initialized /\ s_monitoring_running
       THEN /\ s_monitoring_running' = FALSE
            /\ pc' = "stop_check"
            /\ ret' = ret
            /\ UNCHANGED mon_initialized
       ELSE /\ pc' = "done"
            /\ ret' = ESP_OK
            /\ mon_initialized' = FALSE
            /\ UNCHANGED s_monitoring_running
  /\ UNCHANGED <<s_monitor_count, s_warning_count, monitor_pc,
                 s_monitor_task_handle, exiting_tasks, invalid_delete>>
  /\ MonitorApiFrame

\* system_monitor_stop: if (s_monitor_task_handle != NULL).
StopTestHandle ==
  /\ pc = "stop_check"
  /\ IF s_monitor_task_handle
       THEN /\ pc' = "stop_delete"
            /\ UNCHANGED <<ret, mon_initialized>>
       ELSE StopReturn
  /\ UNCHANGED <<s_monitoring_running, s_monitor_count, s_warning_count,
                 monitor_pc, s_monitor_task_handle, exiting_tasks,
                 invalid_delete, call, arg>>
  /\ MonitorApiFrame

\* system_monitor_stop: vTaskDelete(s_monitor_task_handle). The handle is a
\* plain global that monitor_task writes: the call passes the value the test
\* saw or the value read again. A NULL argument deletes the calling task.
StopDeleteTask ==
  /\ pc = "stop_delete"
  /\ \E reload \in BOOLEAN :
       IF reload /\ ~s_monitor_task_handle
         THEN /\ invalid_delete' = "calling_task"
              /\ pc' = "deleted"
              /\ UNCHANGED <<monitor_pc, exiting_tasks>>
         ELSE /\ pc' = "stop_clear"
              /\ IF s_monitor_task_handle
                   THEN /\ monitor_pc' = "none"
                        /\ UNCHANGED <<exiting_tasks, invalid_delete>>
                   ELSE IF exiting_tasks > 0
                     THEN /\ exiting_tasks' = exiting_tasks - 1
                          /\ UNCHANGED <<monitor_pc, invalid_delete>>
                     ELSE /\ invalid_delete' = "deleted_task"
                          /\ UNCHANGED <<monitor_pc, exiting_tasks>>
  /\ UNCHANGED <<ret, mon_initialized, s_monitoring_running, s_monitor_count,
                 s_warning_count, s_monitor_task_handle, call, arg>>
  /\ MonitorApiFrame

\* system_monitor_stop: s_monitor_task_handle = NULL; return ESP_OK.
StopClearHandle ==
  /\ pc = "stop_clear"
  /\ s_monitor_task_handle' = FALSE
  /\ StopReturn
  /\ UNCHANGED <<s_monitoring_running, s_monitor_count, s_warning_count,
                 monitor_pc, exiting_tasks, invalid_delete, call, arg>>
  /\ MonitorApiFrame

\* What a step of monitor_task outside its loop body leaves alone.
MonitorExitFrame ==
  UNCHANGED <<hwvars, call, arg, dev_initialized, s_config, s_last_status, nvs,
              mon_initialized, s_monitoring_running, s_monitor_count,
              s_warning_count, invalid_delete, driver_faults>>

\* monitor_task: the first test of while (s_monitoring_running).
MonitorEnter ==
  /\ monitor_pc = "started"
  /\ monitor_pc' = IF s_monitoring_running THEN "delay" ELSE "exit"
  /\ UNCHANGED <<s_monitor_task_handle, exiting_tasks>>
  /\ MonitorExitFrame

\* monitor_task after its loop: s_monitor_task_handle = NULL.
MonitorExit ==
  /\ monitor_pc = "exit"
  /\ exiting_tasks < MaxExitingTasks
  /\ s_monitor_task_handle' = FALSE
  /\ exiting_tasks' = exiting_tasks + 1
  /\ monitor_pc' = "none"
  /\ MonitorExitFrame

\* monitor_task after its loop: vTaskDelete(NULL).
MonitorSelfDelete ==
  /\ exiting_tasks > 0
  /\ exiting_tasks' = exiting_tasks - 1
  /\ UNCHANGED <<s_monitor_task_handle, monitor_pc>>
  /\ MonitorExitFrame

\* ------------------------------------------------------------ specifications

\* Arguments the console passes (uint8_t after conversion).
SpeedInputs == {75, 255}
BrightnessInputs == {100, 150}
COLOR_ORANGE == led_color_t(255, 165, 0)
ColorInputs == {COLOR_ORANGE}
TargetInputs == {USB_MUX_ESP32S3, USB_MUX_AGX, USB_MUX_N305, 3}
GpioPinInputs == {ORIN_RECOVERY_PIN, ESP32_MUX2_SEL}

FanOps ==
  \/ \E speed \in SpeedInputs : FanSetSpeed(speed)
  \/ FanStart
  \/ FanStop

LedOps ==
  \/ \E color \in ColorInputs : BoardLedSetColor(color)
  \/ \E brightness \in BrightnessInputs : BoardLedSetBrightness(brightness)
  \/ \E effect \in {LED_EFFECT_SOLID, LED_EFFECT_RAINBOW, 2} :
       BoardLedSetEffect(effect)
  \/ BoardLedTurnOff
  \/ \E color \in ColorInputs : TouchLedSetColor(color)
  \/ \E brightness \in BrightnessInputs : TouchLedSetBrightness(brightness)
  \/ TouchLedTurnOff

GpioOps ==
  \/ \E pin \in GpioPinInputs, state \in {GPIO_STATE_LOW, GPIO_STATE_HIGH} :
       GpioSetOutput(pin, state)
  \/ \E pin \in GpioPinInputs : GpioToggleOutput(pin)
  \/ \E pin \in GpioPinInputs : GpioReadInputMode(pin)

MuxOps ==
  \/ \E target \in TargetInputs : UsbMuxSetTarget(target)
  \/ UsbMuxWrite1
  \/ UsbMuxWrite2

PowerOps ==
  \/ OrinPowerOn
  \/ OrinPowerOff
  \/ OrinReset
  \/ OrinResetHigh
  \/ OrinResetLow
  \/ OrinEnterRecoveryMode
  \/ RecoveryStep1
  \/ RecoveryStep3
  \/ N305PowerToggle
  \/ N305PowerHigh
  \/ N305PowerLow
  \/ N305Reset
  \/ N305ResetHigh
  \/ N305ResetLow

ReadOps ==
  \/ UsbMuxGetTarget
  \/ OrinGetPowerState
  \/ N305GetPowerState
  \/ HardwareGetStatus

\* Every operation of the hardware-control component, with drivers that
\* work once the component is up (initialization itself may fail).
Init == InitHardware /\ InitDevice /\ nvs = <<>> /\ driver_faults = {"init"}

Next ==
  \/ ConsolePrompt
  \/ HardwareControlInit
  \/ HardwareControlDeinit
  \/ FanOps
  \/ LedOps
  \/ GpioOps
  \/ MuxOps
  \/ PowerOps
  \/ ReadOps

Spec == Init /\ [][Next]_vars

\* The power sequencer and the USB mux, with GPIO driver calls that may fail.
InitSeq ==
  InitHardware /\ InitDevice /\ nvs = <<>> /\ driver_faults = {"init", "gpio"}

NextSeq ==
  \/ ConsolePrompt
  \/ HardwareControlInit
  \/ HardwareControlDeinit
  \/ MuxOps
  \/ PowerOps
  \/ ReadOps

SpecSeq == InitSeq /\ [][NextSeq]_vars

\* The fan alone, over every value a uint8_t argument can take.
MaxArg == 255

NextFan ==
  \/ ConsolePrompt
  \/ HardwareControlInit
  \/ HardwareControlDeinit
  \/ \E speed \in 0..MaxArg : FanSetSpeed(speed)
  \/ FanStart
  \/ FanStop

SpecFan == Init /\ [][NextFan]_vars

\* The device interface over a stored configuration: the range-checked
\* setters with arguments at and beyond the limit, the composite operations
\* and an NVS namespace that may hold bytes no save wrote.
RangeInputs == {100, 101, 255}

InitCfg ==
  InitHardware /\ InitDevice /\ nvs \in NvsInit /\ driver_faults = {}

NextCfg ==
  \/ ConsolePrompt
  \/ DeviceInterfaceInit
  \/ DeviceInterfaceDeinit
  \/ \E speed \in RangeInputs : FanSetSpeed(speed)
  \/ \E brightness \in RangeInputs : BoardLedSetBrightness(brightness)
  \/ \E brightness \in RangeInputs : TouchLedSetBrightness(brightness)
  \/ \E speed \in RangeInputs, color \in ColorInputs :
       DeviceQuickSetup(speed, color, LED_COLOR_OFF)
  \/ DeviceEnterSleepMode
  \/ DeviceWakeUp
  \/ DeviceLoadConfig
  \/ DeviceSaveConfig
  \/ HardwareControlDeinit

SpecCfg == InitCfg /\ [][NextCfg]_vars

\* The power sequencer and the USB mux with drivers that never fail.
InitMux == InitHardware /\ InitDevice /\ nvs = <<>> /\ driver_faults = {}

SpecMux == InitMux /\ [][NextSeq]_vars

\* The two LED strips, with a strip driver that may fail.
LedColorInputs == {COLOR_ORANGE, led_color_t(1, 2, 255)}
LedBrightnessInputs == {0, 33, 101}

InitLed ==
  InitHardware /\ InitDevice /\ nvs = <<>> /\ driver_faults = {"led"}

NextLed ==
  \/ ConsolePrompt
  \/ HardwareControlInit
  \/ HardwareControlDeinit
  \/ \E color \in LedColorInputs : BoardLedSetColor(color)
  \/ \E brightness \in LedBrightnessInputs : BoardLedSetBrightness(brightness)
  \/ \E effect \in {LED_EFFECT_SOLID, LED_EFFECT_RAINBOW} :
       BoardLedSetEffect(effect)
  \/ BoardLedTurnOff
  \/ \E color \in LedColorInputs : TouchLedSetColor(color)
  \/ \E brightness \in LedBrightnessInputs : TouchLedSetBrightness(brightness)
  \/ TouchLedTurnOff

SpecLed == InitLed /\ [][NextLed]_vars

\* Sleep and wake-up of the device interface over statuses set through the
\* fan and LED operations, the rainbow effect among them.
NextSleep ==
  \/ ConsolePrompt
  \/ DeviceInterfaceInit
  \/ \E speed \in SpeedInputs : FanSetSpeed(speed)
  \/ \E color \in ColorInputs : BoardLedSetColor(color)
  \/ \E brightness \in LedBrightnessInputs : BoardLedSetBrightness(brightness)
  \/ BoardLedSetEffect(LED_EFFECT_RAINBOW)
  \/ \E color \in ColorInputs : TouchLedSetColor(color)
  \/ \E brightness \in LedBrightnessInputs : TouchLedSetBrightness(brightness)
  \/ DeviceEnterSleepMode
  \/ DeviceWakeUp

SpecSleep == InitMux /\ [][NextSleep]_vars

\* Quick setup and shutdown with a strip driver that may refuse a pixel
\* write or a refresh, on a device interface brought up with and without
\* hardware control.
NextQuick ==
  \/ ConsolePrompt
  \/ DeviceShutdownAll
  \/ DeviceInterfaceInit
  \/ DeviceInterfaceDeinit
  \/ HardwareControlDeinit
  \/ \E brightness \in LedBrightnessInputs : BoardLedSetBrightness(brightness)
  \/ \E fan_speed \in RangeInputs, board_led_color \in LedColorInputs,
        touch_led_color \in LedColorInputs :
       DeviceQuickSetup(fan_speed, board_led_color, touch_led_color)

SpecQuick == InitLed /\ [][NextQuick]_vars

\* Loading the stored configuration over a namespace that may miss keys,
\* with a strip driver that may refuse a pixel write or a refresh.
InitLoad ==
  InitHardware /\ InitDevice /\ nvs \in NvsInit /\ driver_faults = {"led"}

NextLoad ==
  \/ ConsolePrompt
  \/ DeviceInterfaceInit
  \/ \E color \in LedColorInputs : BoardLedSetColor(color)
  \/ \E brightness \in LedBrightnessInputs : BoardLedSetBrightness(brightness)
  \/ DeviceLoadConfig

SpecLoad == InitLoad /\ [][NextLoad]_vars

\* Saving the configuration, changing it with the setters and loading it
\* back, with a strip driver that may fail.
NextRound ==
  \/ ConsolePrompt
  \/ DeviceInterfaceInit
  \/ \E speed \in SpeedInputs : FanSetSpeed(speed)
  \/ \E color \in ColorInputs : BoardLedSetColor(color)
  \/ \E brightness \in BrightnessInputs : BoardLedSetBrightness(brightness)
  \/ \E color \in ColorInputs : TouchLedSetColor(color)
  \/ \E brightness \in BrightnessInputs : TouchLedSetBrightness(brightness)
  \/ DeviceSaveConfig
  \/ DeviceLoadConfig

SpecRound == InitLed /\ [][NextRound]_vars

\* The monitor task running beside the console task; xTaskCreate may fail.
InitMon == InitHardware /\ InitDevice /\ nvs = <<>> /\ driver_faults = {"task"}

NextMon ==
  \/ ConsolePrompt
  \/ DeviceInterfaceInit
  \/ DeviceInterfaceDeinit
  \/ SystemMonitorStart
  \/ SystemMonitorStop
  \/ MonitorTask
  \/ \E speed \in SpeedInputs : FanSetSpeed(speed)
  \/ MuxOps
  \/ DeviceEnterSleepMode
  \/ DeviceWakeUp

SpecMon == InitMon /\ [][NextMon]_vars

\* The system monitor's interface statement by statement, interleaved with
\* monitor_task: the console task and the monitor task may run on different
\* cores or pre-empt each other between any two statements.
NextRace ==
  \/ ConsolePrompt
  \/ MonitorInitSteps
  \/ MonitorDeinitSteps
  \/ StartCreateTask
  \/ StartSetRunning
  \/ StopClearRunning
  \/ StopTestHandle
  \/ StopDeleteTask
  \/ StopClearHandle
  \/ MonitorEnter
  \/ MonitorTask
  \/ MonitorExit
  \/ MonitorSelfDelete

SpecRace == InitMon /\ [][NextRace]_vars

\* The device interface on a board whose hardware_control_init may fail at
\* any of its stages.
NextDegraded ==
  \/ ConsolePrompt
  \/ HardwareControlInit
  \/ DeviceInterfaceInit
  \/ DeviceInterfaceDeinit
  \/ \E speed \in SpeedInputs : FanSetSpeed(speed)
  \/ \E speed \in SpeedInputs, color \in ColorInputs :
       DeviceQuickSetup(speed, color, color)
  \/ DeviceShutdownAll
  \/ DeviceEnterSleepMode
  \/ DeviceWakeUp
  \/ DeviceLoadConfig

SpecDegraded == Init /\ [][NextDegraded]_vars

\* ------------------------------------------------------------ claims

Has(tr, e) == \E i \in 1..Len(tr) : tr[i] = e

\* Some driver call on pin was issued (accepted or refused).
Touches(tr, pin) == \E i \in 1..Len(tr) : tr[i][2] = pin

\* A driver call on pin was refused.
FailedOn(tr, pin) ==
  \E i \in 1..Len(tr) : tr[i][2] = pin /\ tr[i][1] \in {"dir_fail", "level_fail"}

InRecovery == call = "orin_enter_recovery_mode"

MuxState ==
  <<s_hardware_status.usb_mux_target,
    gpio_level[ESP32_MUX1_SEL], gpio_level[ESP32_MUX2_SEL],
    gpio_mode[ESP32_MUX1_SEL], gpio_mode[ESP32_MUX2_SEL]>>

RecoveryOutcome ==
  /\ (InRecovery /\ pc = "done" /\ ret = ESP_OK) =>
       /\ s_hardware_status.usb_mux_target = USB_MUX_AGX
       /\ gpio_level[ORIN_RECOVERY_PIN] = GPIO_STATE_LOW
       /\ Has(trace, <<"level", ORIN_RECOVERY_PIN, GPIO_STATE_LOW>>)
  /\ (InRecovery /\ FailedOn(trace, ORIN_RESET_PIN)) =>
       /\ pc = "done"
       /\ ret = ESP_FAIL
       /\ ~Has(trace, <<"level", ORIN_RECOVERY_PIN, GPIO_STATE_LOW>>)
       /\ ~Touches(trace, ESP32_MUX1_SEL)
       /\ ~Touches(trace, ESP32_MUX2_SEL)

\* C1: orin_enter_recovery_mode that returns ESP_OK leaves the stored mux
\* target at USB_MUX_AGX and the recovery pin last written low; when a pin
\* write of step 2 (orin_reset) is refused the call returns that error, issues
\* no write of step 3 or step 4, and no step up to there changes the stored
\* mux target or a mux select pin.
C1_RecoveryContract ==
  [][/\ RecoveryOutcome'
     /\ (call' = "orin_enter_recovery_mode"
           /\ pc \in {"idle", "recovery_high", "reset_high", "reset_low"})
          => UNCHANGED MuxState]_vars

C1_Witness ==
  /\ InRecovery
  /\ pc = "done"
  /\ FailedOn(trace, ORIN_RESET_PIN)
  /\ Has(trace, <<"level", ORIN_RESET_PIN, GPIO_STATE_HIGH>>)
  /\ s_hardware_status.usb_mux_target = USB_MUX_N305

\* The driver calls of a complete recovery-mode entry, in order.
RecoverySequence ==
  <<<<"level", ORIN_RECOVERY_PIN, 1>>,
    <<"dir_output", ORIN_RESET_PIN, 0>>,
    <<"level", ORIN_RESET_PIN, 1>>,
    <<"dir_output", ORIN_RESET_PIN, 0>>,
    <<"level", ORIN_RESET_PIN, 0>>,
    <<"level", ORIN_RECOVERY_PIN, 0>>,
    <<"dir_output", ESP32_MUX1_SEL, 0>>,
    <<"level", ESP32_MUX1_SEL, 1>>,
    <<"dir_output", ESP32_MUX2_SEL, 0>>,
    <<"level", ESP32_MUX2_SEL, 0>>>>

IsFailure(e) ==
  e[1] \in {"dir_fail", "level_fail", "led_pixel_fail", "led_refresh_fail"}

\* e is the refusal of the driver call w.
RefusalOf(e, w) ==
  /\ e[2] = w[2]
  /\ \/ w[1] = "level" /\ e[1] = "level_fail" /\ e[3] = w[3]
     \/ w[1] = "dir_output" /\ e[1] = "dir_fail"

\* tr is a prefix of seq, or such a prefix followed by the refusal of the
\* next call of seq.
FollowsOrder(tr, seq) ==
  /\ Len(tr) <= Len(seq)
  /\ \A i \in 1..Len(tr) :
       \/ tr[i] = seq[i]
       \/ i = Len(tr) /\ RefusalOf(tr[i], seq[i])

MutatingOps ==
  {"fan_set_speed", "fan_start", "fan_stop",
   "board_led_set_color", "board_led_set_brightness", "board_led_set_effect",
   "board_led_turn_off", "touch_led_set_color", "touch_led_set_brightness",
   "touch_led_turn_off", "usb_mux_set_target",
   "orin_power_on", "orin_power_off", "orin_reset", "orin_enter_recovery_mode",
   "n305_power_toggle", "n305_reset",
   "gpio_set_output", "gpio_toggle_output"}

\* What the peripherals see: pin latches and directions, PWM duty, pixels.
Outputs == <<gpio_level, gpio_mode, fan_duty, board_pixels, touch_pixels>>

\* C3: a mutating operation called while the component is not initialized
\* returns ESP_ERR_INVALID_STATE at once, issues no driver call and changes
\* neither the status record nor any output.
C3_NotInitializedGate ==
  [][(~s_initialized /\ pc = "idle" /\ call' \in MutatingOps) =>
       /\ pc' = "done"
       /\ ret' = ESP_ERR_INVALID_STATE
       /\ trace' = <<>>
       /\ UNCHANGED <<s_hardware_status, Outputs>>]_vars

RangeCheckedOps ==
  {"fan_set_speed", "board_led_set_brightness", "touch_led_set_brightness"}

HasKind(tr, kind) == \E i \in 1..Len(tr) : tr[i][1] = kind

\* C4: the stored fan speed and both stored brightnesses are within 0..100
\* in every reachable state; a setter called with a value above 100 returns
\* an error without a driver call, device_quick_setup with such a fan speed
\* issues no driver call at all, and device_load_config issues no PWM write
\* for a stored fan speed above 100.
C4_PercentRange ==
  /\ s_hardware_status.fan_speed \in 0..100
  /\ s_hardware_status.board_led_brightness \in 0..100
  /\ s_hardware_status.touch_led_brightness \in 0..100
  /\ fan_duty \in 0..255
  /\ (pc = "done" /\ call \in RangeCheckedOps /\ arg > 100) =>
       (ret \in {ESP_ERR_INVALID_ARG, ESP_ERR_INVALID_STATE} /\ trace = <<>>)
  /\ (pc = "done" /\ call = "device_quick_setup" /\ arg[1] > 100) =>
       /\ trace = <<>>
       /\ ret = ESP_OK => ~s_config.enable_hardware_control
  /\ (pc = "done" /\ call = "device_load_config"
        /\ nvs_get_u8(nvs, "fan_speed", 0) > 100) =>
       ~HasKind(trace, "pwm")

C4_Witness ==
  /\ pc = "done"
  /\ call = "device_load_config"
  /\ nvs_get_u8(nvs, "fan_speed", 0) > 100
  /\ nvs_get_u8(nvs, "board_bright", 50) > 100
  /\ HasKind(trace, "led_refresh")
  /\ s_hardware_status.fan_speed = 100

\* C5: on an initialized component fan_set_speed(speed) with speed <= 100
\* returns ESP_OK and fan_get_speed() then returns speed; with speed > 100 it
\* returns ESP_ERR_INVALID_ARG and fan_get_speed() returns what it returned
\* before the call.
C5_FanSpeedRoundTrip ==
  [][(s_initialized /\ pc = "idle" /\ call' = "fan_set_speed") =>
       IF arg' <= 100
         THEN ret' = ESP_OK /\ fan_get_speed' = arg'
         ELSE ret' = ESP_ERR_INVALID_ARG /\ fan_get_speed' = fan_get_speed]_vars

C5_Witness ==
  /\ s_initialized
  /\ pc = "done"
  /\ call = "fan_set_speed"
  /\ arg = 150
  /\ ret = ESP_ERR_INVALID_ARG
  /\ fan_get_speed = 37

\* The select codes as the specification tabulates them: <<MUX1, MUX2>>.
MuxTable ==
  (USB_MUX_ESP32S3 :> <<0, 0>>) @@ (USB_MUX_AGX :> <<1, 0>>)
    @@ (USB_MUX_N305 :> <<1, 1>>)

MuxPins == <<Driven(ESP32_MUX1_SEL), Driven(ESP32_MUX2_SEL)>>

\* C6: on an initialized component usb_mux_set_target(T) with a valid T
\* whose pin writes are all accepted returns ESP_OK, usb_mux_get_target then
\* returns T, and the select pins are driven to the table value of T; no
\* other call of usb_mux_set_target returns ESP_OK.
C6_MuxRoundTrip ==
  (pc = "done" /\ call = "usb_mux_set_target") =>
    /\ (s_initialized /\ arg \in DOMAIN MuxTable /\ ~FailedOn(trace, ESP32_MUX1_SEL)
          /\ ~FailedOn(trace, ESP32_MUX2_SEL)) => ret = ESP_OK
    /\ ret = ESP_OK =>
         /\ arg \in DOMAIN MuxTable
         /\ usb_mux_get_target(HW, TRUE)[1] = ESP_OK
         /\ usb_mux_get_target(HW, TRUE)[2] = arg
         /\ MuxPins = MuxTable[arg]

C6_Witness ==
  /\ pc = "done"
  /\ call = "usb_mux_set_target"
  /\ arg = USB_MUX_N305
  /\ ret = ESP_OK
  /\ MuxPins = <<1, 1>>

\* C7: within usb_mux_set_target (called directly or as step 4 of
\* orin_enter_recovery_mode) the stored target changes only in the step that
\* returns ESP_OK after both select-pin writes were accepted; a call that
\* returns an error (a refused MUX1 or MUX2 write, or an invalid target)
\* never changes it.
C7_MuxStoreLast ==
  [][call' \in {"usb_mux_set_target", "orin_enter_recovery_mode"} =>
       /\ (s_hardware_status.usb_mux_target' # s_hardware_status.usb_mux_target) =>
            /\ pc = "mux2"
            /\ pc' = "done"
            /\ ret' = ESP_OK
            /\ s_hardware_status.usb_mux_target' = MuxTargetArg
            /\ Has(trace', <<"level", ESP32_MUX1_SEL, MuxTable[MuxTargetArg][1]>>)
            /\ trace'[Len(trace')] =
                 <<"level", ESP32_MUX2_SEL, MuxTable[MuxTargetArg][2]>>
       /\ (pc = "idle" /\ s_initialized /\ call' = "usb_mux_set_target"
             /\ arg' \notin DOMAIN MuxTable) =>
            (pc' = "done" /\ ret' = ESP_ERR_INVALID_ARG /\ trace' = <<>>)
       /\ (pc' = "done" /\ (FailedOn(trace', ESP32_MUX1_SEL)
                              \/ FailedOn(trace', ESP32_MUX2_SEL))) =>
            ret' = ESP_FAIL]_vars

C7_Witness ==
  /\ pc = "done"
  /\ call = "usb_mux_set_target"
  /\ arg = USB_MUX_AGX
  /\ FailedOn(trace, ESP32_MUX2_SEL)
  /\ Has(trace, <<"level", ESP32_MUX1_SEL, 1>>)
  /\ s_hardware_status.usb_mux_target = USB_MUX_ESP32S3

\* C8: while the component is initialized the select pins never hold the
\* reserved combination MUX1 low, MUX2 high, whatever sequence of
\* usb_mux_set_target and orin_enter_recovery_mode calls has run and whichever
\* step of a call is reached.
C8_NoReservedCombination ==
  s_initialized => MuxPins # <<0, 1>>

orin_state == s_hardware_status.orin_power_state
n305_state == s_hardware_status.n305_power_state

\* C9: while the component stays initialized the stored Orin state changes
\* only in the return of a successful orin_power_on (to On) or orin_power_off
\* (to Off), the stored N305 state only in the return of a successful
\* n305_power_toggle (On to Off, otherwise to On); every other step leaves
\* both unchanged, and neither state returns to Unknown.
C9_PowerStateFrame ==
  [][(s_initialized /\ s_initialized') =>
       /\ orin_state' # orin_state =>
            /\ pc' = "done"
            /\ ret' = ESP_OK
            /\ \/ call' = "orin_power_on" /\ orin_state' = POWER_STATE_ON
               \/ call' = "orin_power_off" /\ orin_state' = POWER_STATE_OFF
       /\ n305_state' # n305_state =>
            /\ pc' = "done"
            /\ ret' = ESP_OK
            /\ call' = "n305_power_toggle"
            /\ n305_state' = IF n305_state = POWER_STATE_ON
                               THEN POWER_STATE_OFF
                               ELSE POWER_STATE_ON
       /\ orin_state' = POWER_STATE_UNKNOWN => orin_state = POWER_STATE_UNKNOWN
       /\ n305_state' = POWER_STATE_UNKNOWN => n305_state = POWER_STATE_UNKNOWN]_vars

C9_Witness ==
  /\ s_initialized
  /\ pc = "done"
  /\ call = "n305_reset"
  /\ ret = ESP_OK
  /\ n305_state = POWER_STATE_OFF
  /\ orin_state = POWER_STATE_OFF

\* The stored Orin state follows the power pin's latch: On with the pin low,
\* Off with the pin high.
OrinStateTracksPin ==
  s_initialized =>
    /\ orin_state \in {POWER_STATE_ON, POWER_STATE_OFF}
    /\ orin_state = POWER_STATE_ON <=> gpio_level[ORIN_POWER_PIN] = GPIO_STATE_LOW

\* C10: orin_power_on writes the power pin low and then stores On,
\* orin_power_off writes it high and then stores Off; a refused pin call
\* returns the error with the stored state and the pin latch unchanged; so
\* the stored state is On exactly when the last accepted write of the power
\* pin was low.
C10_OrinPowerTracksPin ==
  [][/\ OrinStateTracksPin'
     /\ (s_initialized /\ pc = "idle"
           /\ call' \in {"orin_power_on", "orin_power_off"}) =>
          LET level == IF call' = "orin_power_on"
                         THEN GPIO_STATE_LOW
                         ELSE GPIO_STATE_HIGH
              state == IF call' = "orin_power_on"
                         THEN POWER_STATE_ON
                         ELSE POWER_STATE_OFF
          IN /\ pc' = "done"
             /\ IF FailedOn(trace', ORIN_POWER_PIN)
                  THEN /\ ret' = ESP_FAIL
                       /\ orin_state' = orin_state
                       /\ gpio_level' = gpio_level
                  ELSE /\ ret' = ESP_OK
                       /\ trace'[Len(trace')] = <<"level", ORIN_POWER_PIN, level>>
                       /\ Driven(ORIN_POWER_PIN)' = level
                       /\ orin_state' = state]_vars

C10_Witness ==
  /\ s_initialized
  /\ pc = "done"
  /\ call = "orin_power_on"
  /\ FailedOn(trace, ORIN_POWER_PIN)
  /\ orin_state = POWER_STATE_OFF
  /\ gpio_level[ORIN_POWER_PIN] = GPIO_STATE_HIGH

DrivenLow(pin) == gpio_mode[pin] = "output" /\ gpio_level[pin] = GPIO_STATE_LOW

\* A hardware_control_init call that starts uninitialized and returns ESP_OK.
SuccessfulInit ==
  /\ ~s_initialized
  /\ pc = "idle"
  /\ call' = "hardware_control_init"
  /\ ret' = ESP_OK

\* C11: a hardware_control_init that starts uninitialized and returns ESP_OK
\* leaves the stored Orin state On and the stored N305 state Unknown, with
\* the Orin power, reset and recovery pins and the N305 power-button and
\* reset pins in output mode at level low, whatever the pins held before.
C11_InitPowerDefaults ==
  [][SuccessfulInit =>
       /\ s_initialized'
       /\ orin_state' = POWER_STATE_ON
       /\ n305_state' = POWER_STATE_UNKNOWN
       /\ \A pin \in {ORIN_POWER_PIN, ORIN_RESET_PIN, ORIN_RECOVERY_PIN,
                      N305_POWER_BTN_PIN, N305_RESET_PIN} : DrivenLow(pin)']_vars

C11_Witness ==
  /\ pc = "done"
  /\ call = "hardware_control_init"
  /\ ret = ESP_OK
  /\ s_initialized
  /\ orin_state = POWER_STATE_ON
  /\ n305_state = POWER_STATE_UNKNOWN
  /\ DrivenLow(ORIN_RECOVERY_PIN)
  /\ trace # <<>>

\* C12: a hardware_control_init that starts uninitialized and returns ESP_OK
\* leaves usb_mux_get_target returning USB_MUX_ESP32S3 and both select pins
\* in output mode at level low, whatever the pins held before.
C12_InitMuxDefault ==
  [][SuccessfulInit =>
       /\ usb_mux_get_target(HW, TRUE)' = <<ESP_OK, USB_MUX_ESP32S3>>
       /\ DrivenLow(ESP32_MUX1_SEL)'
       /\ DrivenLow(ESP32_MUX2_SEL)']_vars

C12_Witness ==
  /\ pc = "done"
  /\ call = "hardware_control_init"
  /\ ret = ESP_OK
  /\ usb_mux_get_target(HW, TRUE)[2] = USB_MUX_ESP32S3
  /\ DrivenLow(ESP32_MUX1_SEL)
  /\ DrivenLow(ESP32_MUX2_SEL)
  /\ Has(trace, <<"level", ESP32_MUX2_SEL, 0>>)

\* How many consecutive toggles are followed.
MaxToggles == 4

\* The state of the component after k consecutive n305_power_toggle calls
\* whose pin writes are all accepted, started from h.
RECURSIVE Toggled(_, _)
Toggled(h, k) ==
  IF k = 0
    THEN h
    ELSE Toggled(n305_power_low(n305_power_high(n305_power_toggle(h), "ok"),
                                "ok"),
                 k - 1)

Flipped(state) ==
  IF state = POWER_STATE_ON THEN POWER_STATE_OFF ELSE POWER_STATE_ON

\* From Unknown, k toggles give On for odd k and Off for even k; from any
\* state each toggle flips.
ToggleParity ==
  (s_initialized /\ pc = "idle") =>
    \A k \in 1..MaxToggles :
      /\ Toggled(HW, k).ret = ESP_OK
      /\ Toggled(HW, k).st.n305_power_state =
           Flipped(Toggled(HW, k - 1).st.n305_power_state)
      /\ n305_state = POWER_STATE_UNKNOWN =>
           Toggled(HW, k).st.n305_power_state =
             IF k % 2 = 1 THEN POWER_STATE_ON ELSE POWER_STATE_OFF

\* C13: within n305_power_toggle the stored N305 state changes only at the
\* return of ESP_OK, from On to Off and from Off or Unknown to On; a call with
\* a refused pin write returns the error with the state unchanged; so k
\* consecutive successful toggles from Unknown give On for odd k and Off for
\* even k.
C13_ToggleFlips ==
  /\ []ToggleParity
  /\ [][call' = "n305_power_toggle" =>
          /\ (pc' = "done" /\ ret' = ESP_OK) =>
               (pc = "n305_power_low" /\ n305_state' = Flipped(n305_state))
          /\ ~(pc' = "done" /\ ret' = ESP_OK) => n305_state' = n305_state
          /\ (pc' = "done" /\ FailedOn(trace', N305_POWER_BTN_PIN)) =>
               ret' = ESP_FAIL]_vars

C13_Witness ==
  /\ pc = "done"
  /\ call = "n305_power_toggle"
  /\ ret = ESP_OK
  /\ n305_state = POWER_STATE_OFF
  /\ orin_state = POWER_STATE_ON

PulseOps == {"orin_reset", "n305_reset", "n305_power_toggle"}

PulsePin(op) ==
  CASE op = "orin_reset" -> ORIN_RESET_PIN
    [] op = "n305_reset" -> N305_RESET_PIN
    [] op = "n305_power_toggle" -> N305_POWER_BTN_PIN

\* One pulse on pin as gpio_set_output issues it: high, then low.
PulseSequence(pin) ==
  <<<<"dir_output", pin, 0>>, <<"level", pin, 1>>,
    <<"dir_output", pin, 0>>, <<"level", pin, 0>>>>

\* C14: the driver calls of orin_reset, n305_reset and n305_power_toggle are
\* one write high followed by one write low of the call's own pin and nothing
\* else; when the call returns ESP_OK both writes were issued and the pin is
\* driven low; with every call successful the Orin reset pin, the N305 reset
\* pin and the N305 power-button pin are low whenever no call is in progress.
C14_SinglePulse ==
  /\ call \in PulseOps =>
       /\ FollowsOrder(trace, PulseSequence(PulsePin(call)))
       /\ (pc = "done" /\ ret = ESP_OK) =>
            /\ trace = PulseSequence(PulsePin(call))
            /\ DrivenLow(PulsePin(call))
       /\ (s_initialized /\ pc = "done") => ret = ESP_OK
  /\ (s_initialized /\ pc \in {"idle", "done"}) =>
       /\ DrivenLow(ORIN_RESET_PIN)
       /\ DrivenLow(N305_RESET_PIN)
       /\ DrivenLow(N305_POWER_BTN_PIN)

C14_Witness ==
  /\ call = "n305_reset"
  /\ pc = "n305_reset_low"
  /\ gpio_level[N305_RESET_PIN] = GPIO_STATE_HIGH
  /\ trace = SubSeq(PulseSequence(N305_RESET_PIN), 1, 2)

\* The pixel the specification prescribes: each channel times the brightness
\* over 100, truncated.
ExpectedPixel(color, brightness) ==
  led_color_t((color.red * brightness) \div 100,
              (color.green * brightness) \div 100,
              (color.blue * brightness) \div 100)

AllPixels(px, value) == \A i \in DOMAIN px : px[i] = value

board_color == s_hardware_status.board_led_color
board_brightness == s_hardware_status.board_led_brightness
touch_color == s_hardware_status.touch_led_color
touch_brightness == s_hardware_status.touch_led_brightness

BoardLedOps ==
  {"board_led_set_color", "board_led_set_brightness", "board_led_set_effect",
   "board_led_turn_off"}

TouchLedOps ==
  {"touch_led_set_color", "touch_led_set_brightness", "touch_led_turn_off"}

\* The call made in this step returns ESP_OK.
Succeeds(op) == pc = "idle" /\ call' = op /\ ret' = ESP_OK

\* C15: a set_color, set_brightness, turn_off or set_effect(Solid) call that
\* returns ESP_OK leaves every pixel of its strip at the stored colour times
\* the stored brightness over 100, truncated per channel: set_color(c) at
\* c * brightness / 100, set_brightness(b) at colour * b / 100 whatever the
\* brightness was before.
C15_PixelScaling ==
  [][/\ Succeeds("board_led_set_color") =>
          AllPixels(board_pixels', ExpectedPixel(arg', board_brightness))
     /\ Succeeds("board_led_set_brightness") =>
          AllPixels(board_pixels', ExpectedPixel(board_color, arg'))
     /\ Succeeds("board_led_turn_off") =>
          AllPixels(board_pixels', ExpectedPixel(LED_COLOR_OFF, board_brightness))
     /\ (Succeeds("board_led_set_effect") /\ arg' = LED_EFFECT_SOLID) =>
          AllPixels(board_pixels', ExpectedPixel(board_color, board_brightness))
     /\ Succeeds("touch_led_set_color") =>
          AllPixels(touch_pixels', ExpectedPixel(arg', touch_brightness))
     /\ Succeeds("touch_led_set_brightness") =>
          AllPixels(touch_pixels', ExpectedPixel(touch_color, arg'))
     /\ Succeeds("touch_led_turn_off") =>
          AllPixels(touch_pixels', ExpectedPixel(LED_COLOR_OFF, touch_brightness))
     /\ (\E op \in BoardLedOps \cup TouchLedOps : Succeeds(op)) =>
          /\ call' \in BoardLedOps /\ ~(call' = "board_led_set_effect"
                                       /\ arg' = LED_EFFECT_RAINBOW) =>
               AllPixels(board_pixels', ExpectedPixel(board_color', board_brightness'))
          /\ call' \in TouchLedOps =>
               AllPixels(touch_pixels', ExpectedPixel(touch_color', touch_brightness'))]_vars

C15_Witness ==
  /\ pc = "done"
  /\ call = "board_led_set_brightness"
  /\ arg = 33
  /\ ret = ESP_OK
  /\ board_color = COLOR_ORANGE
  /\ AllPixels(board_pixels, led_color_t(84, 54, 0))

\* C16: a turn_off that returns ESP_OK leaves every pixel of its strip at
\* {0,0,0} and the stored brightness of the strip as it was, whatever colour,
\* brightness or effect the strip showed before.
C16_TurnOffDark ==
  [][/\ Succeeds("board_led_turn_off") =>
          /\ AllPixels(board_pixels', LED_COLOR_OFF)
          /\ board_brightness' = board_brightness
     /\ Succeeds("touch_led_turn_off") =>
          /\ AllPixels(touch_pixels', LED_COLOR_OFF)
          /\ touch_brightness' = touch_brightness]_vars

C16_Witness ==
  /\ pc = "done"
  /\ call = "board_led_turn_off"
  /\ ret = ESP_OK
  /\ board_brightness = 33
  /\ AllPixels(board_pixels, LED_COLOR_OFF)
  /\ ~AllPixels(touch_pixels, LED_COLOR_OFF)

\* C17: a set_brightness call never changes the stored colour of its strip
\* and a set_color call never changes its stored brightness; on an
\* initialized component set_color stores exactly the colour passed and
\* turn_off stores {0,0,0}; set_effect changes neither field; and a call on
\* one strip changes neither field of the other strip.
C17_ColorBrightnessIndependent ==
  [][/\ call' = "board_led_set_brightness" => board_color' = board_color
     /\ call' = "touch_led_set_brightness" => touch_color' = touch_color
     /\ call' \in {"board_led_set_color", "board_led_turn_off",
                   "board_led_set_effect"} =>
          board_brightness' = board_brightness
     /\ call' \in {"touch_led_set_color", "touch_led_turn_off"} =>
          touch_brightness' = touch_brightness
     /\ (s_initialized /\ pc = "idle" /\ call' = "board_led_set_color") =>
          board_color' = arg'
     /\ (s_initialized /\ pc = "idle" /\ call' = "touch_led_set_color") =>
          touch_color' = arg'
     /\ (s_initialized /\ pc = "idle" /\ call' = "board_led_turn_off") =>
          board_color' = LED_COLOR_OFF
     /\ (s_initialized /\ pc = "idle" /\ call' = "touch_led_turn_off") =>
          touch_color' = LED_COLOR_OFF
     /\ call' = "board_led_set_effect" => board_color' = board_color
     /\ call' \in BoardLedOps =>
          (touch_color' = touch_color /\ touch_brightness' = touch_brightness)
     /\ call' \in TouchLedOps =>
          (board_color' = board_color /\ board_brightness' = board_brightness)
     /\ board_color' # board_color =>
          call' \in {"board_led_set_color", "board_led_turn_off",
                     "hardware_control_init", "hardware_control_deinit"}
     /\ touch_color' # touch_color =>
          call' \in {"touch_led_set_color", "touch_led_turn_off",
                     "hardware_control_init", "hardware_control_deinit"}
     /\ call' \in {"hardware_control_init", "hardware_control_deinit"} =>
          /\ board_color' \in {board_color, LED_COLOR_OFF}
          /\ touch_color' \in {touch_color, LED_COLOR_OFF}]_vars

C17_Witness ==
  /\ pc = "done"
  /\ call = "touch_led_set_brightness"
  /\ arg = 33
  /\ ret = ESP_OK
  /\ touch_color = COLOR_ORANGE
  /\ board_color = led_color_t(1, 2, 255)
  /\ board_brightness = 0

LedOk == <<"ok">>

\* device_enter_sleep_mode directly followed by device_wake_up, every driver
\* call accepted: the state of the two components after the wake-up.
SleepThenWake(h, d) ==
  LET asleep == device_enter_sleep_mode(h, d, LedOk, LedOk)
  IN device_wake_up(asleep.h, asleep.d, TRUE, <<LedOk, LedOk, LedOk, LedOk>>)

\* Hardware control is enabled in the device interface and initialized, and
\* no call is in progress.
HardwareReady ==
  /\ pc = "idle"
  /\ dev_initialized
  /\ s_config.enable_hardware_control
  /\ s_initialized

\* C18: from every reachable state with hardware control enabled and
\* initialized, device_enter_sleep_mode followed by device_wake_up returns
\* ESP_OK and leaves the stored fan speed, both stored colours and both stored
\* brightnesses as they were before the sleep.
C18_SleepWakeStatus ==
  HardwareReady =>
    LET after == SleepThenWake(HW, DEV).h
    IN /\ after.ret = ESP_OK
       /\ after.st.fan_speed = s_hardware_status.fan_speed
       /\ after.st.board_led_color = board_color
       /\ after.st.board_led_brightness = board_brightness
       /\ after.st.touch_led_color = touch_color
       /\ after.st.touch_led_brightness = touch_brightness

C18_Witness ==
  /\ pc = "done"
  /\ call = "device_wake_up"
  /\ ret = ESP_OK
  /\ s_last_status.hardware_available
  /\ s_hardware_status.fan_speed = 75
  /\ s_last_status.hardware.fan_speed = 75
  /\ board_color = COLOR_ORANGE
  /\ board_brightness = 33
  /\ touch_color = COLOR_ORANGE
  /\ touch_brightness = 0

\* C19: from every reachable state with hardware control enabled and
\* initialized, device_enter_sleep_mode followed by device_wake_up leaves the
\* committed fan PWM duty and every pixel of both LED strips as they were
\* immediately before device_enter_sleep_mode was called.
C19_SleepWakeVisible ==
  HardwareReady =>
    LET after == SleepThenWake(HW, DEV).h
    IN /\ after.duty = HW.duty
       /\ after.bpix = HW.bpix
       /\ after.tpix = HW.tpix

\* The strip driver refused a call on the strip at pin.
StripFailed(tr, pin) ==
  \E i \in 1..Len(tr) :
    tr[i][2] = pin /\ tr[i][1] \in {"led_pixel_fail", "led_refresh_fail"}

\* Position of a driver call in the order fan, board strip, touch strip.
QuickRank(e) ==
  CASE e[2] = FAN_PWM_PIN -> 1
    [] e[2] = BOARD_WS2812_PIN -> 2
    [] e[2] = TOUCH_WS2812_PIN -> 3
    [] OTHER -> 0

QuickOrdered(tr) ==
  /\ \A i \in 1..Len(tr) : QuickRank(tr[i]) > 0
  /\ \A i, j \in 1..Len(tr) : i < j => QuickRank(tr[i]) <= QuickRank(tr[j])

\* A device_quick_setup call on an initialized device interface with hardware
\* control enabled.
QuickSetupCall ==
  /\ pc = "idle"
  /\ call' = "device_quick_setup"
  /\ dev_initialized
  /\ s_config.enable_hardware_control

\* Nothing was applied: no driver call, the status record, the duty and the
\* pixels as before.
QuickNothingApplied ==
  /\ trace' = <<>>
  /\ UNCHANGED <<s_hardware_status, fan_duty, board_pixels, touch_pixels>>

\* The touch strip was not reached.
QuickTouchSkipped ==
  /\ ~Touches(trace', TOUCH_WS2812_PIN)
  /\ touch_color' = touch_color
  /\ touch_pixels' = touch_pixels

\* The board colour was applied and is shown.
QuickBoardShown ==
  /\ board_color' = arg'[2]
  /\ AllPixels(board_pixels', ExpectedPixel(arg'[2], board_brightness))

\* C20: device_quick_setup on an initialized device interface with hardware
\* control enabled issues its driver calls in the order fan, board strip,
\* touch strip. A refused fan speed (above 100: ESP_ERR_INVALID_ARG; hardware
\* control not initialized: ESP_ERR_INVALID_STATE) is returned with no
\* driver call and fan, colours and pixels unchanged. A failure on the board
\* strip is returned with the fan speed and the board colour kept as applied
\* and the touch strip not reached; a failure on the touch strip is returned
\* with the fan speed and the board colour kept as applied; otherwise the
\* call returns ESP_OK with all three applied.
C20_QuickSetupAbort ==
  [][QuickSetupCall =>
       /\ QuickOrdered(trace')
       /\ ~s_initialized => (ret' = ESP_ERR_INVALID_STATE /\ QuickNothingApplied)
       /\ (s_initialized /\ arg'[1] > 100) =>
            (ret' = ESP_ERR_INVALID_ARG /\ QuickNothingApplied)
       /\ (s_initialized /\ arg'[1] <= 100) =>
            /\ s_hardware_status'.fan_speed = arg'[1]
            /\ fan_duty' = (arg'[1] * 255) \div 100
            /\ Has(trace', <<"pwm", FAN_PWM_PIN, fan_duty'>>)
            /\ board_color' = arg'[2]
            /\ board_brightness' = board_brightness
            /\ touch_brightness' = touch_brightness
            /\ IF StripFailed(trace', BOARD_WS2812_PIN)
                 THEN ret' = ESP_FAIL /\ QuickTouchSkipped
                 ELSE /\ QuickBoardShown
                      /\ touch_color' = arg'[3]
                      /\ Touches(trace', TOUCH_WS2812_PIN)
                      /\ IF StripFailed(trace', TOUCH_WS2812_PIN)
                           THEN ret' = ESP_FAIL
                           ELSE /\ ret' = ESP_OK
                                /\ AllPixels(touch_pixels',
                                     ExpectedPixel(arg'[3], touch_brightness))
  ]_vars

\* A quick setup whose touch strip refused the refresh: the fan and the board
\* colour stay applied.
C20_Witness ==
  /\ pc = "done"
  /\ call = "device_quick_setup"
  /\ ret = ESP_FAIL
  /\ Has(trace, <<"led_refresh_fail", TOUCH_WS2812_PIN, 0>>)
  /\ s_hardware_status.fan_speed = 100
  /\ fan_duty = 255
  /\ board_color = COLOR_ORANGE
  /\ AllPixels(board_pixels, ExpectedPixel(COLOR_ORANGE, board_brightness))
  /\ board_brightness = 33

\* Number of driver calls of the given kind on pin during the current call.
RECURSIVE CountCalls(_, _, _)
CountCalls(tr, kind, pin) ==
  IF tr = <<>>
    THEN 0
    ELSE (IF Head(tr)[1] = kind /\ Head(tr)[2] = pin THEN 1 ELSE 0)
         + CountCalls(Tail(tr), kind, pin)

\* A device_shutdown_all call on an initialized device interface with
\* hardware control enabled and initialized.
ShutdownCall ==
  /\ pc = "idle"
  /\ call' = "device_shutdown_all"
  /\ dev_initialized
  /\ s_config.enable_hardware_control
  /\ s_initialized

\* C21: device_shutdown_all with hardware control enabled issues the fan
\* write, the board strip write and the touch strip write exactly once each,
\* in that order, also when an earlier step was refused by the driver, and
\* returns ESP_OK; when no step was refused the stored fan speed is 0, both
\* stored colours are {0,0,0}, every pixel is dark and both brightnesses are
\* as before the call.
C21_ShutdownAttemptsAll ==
  [][ShutdownCall =>
       /\ ret' = ESP_OK
       /\ QuickOrdered(trace')
       /\ CountCalls(trace', "pwm", FAN_PWM_PIN) = 1
       /\ CountCalls(trace', "led_pixels", BOARD_WS2812_PIN) = 1
       /\ CountCalls(trace', "led_pixels", TOUCH_WS2812_PIN) = 1
       /\ board_brightness' = board_brightness
       /\ touch_brightness' = touch_brightness
       /\ s_hardware_status'.fan_speed = 0
       /\ fan_duty' = 0
       /\ (\A i \in 1..Len(trace') : ~IsFailure(trace'[i])) =>
            /\ board_color' = LED_COLOR_OFF
            /\ touch_color' = LED_COLOR_OFF
            /\ AllPixels(board_pixels', LED_COLOR_OFF)
            /\ AllPixels(touch_pixels', LED_COLOR_OFF)
  ]_vars

\* A shutdown whose board strip refused the refresh: the touch strip was
\* still turned off and the call returned ESP_OK.
C21_Witness ==
  /\ pc = "done"
  /\ call = "device_shutdown_all"
  /\ ret = ESP_OK
  /\ Has(trace, <<"led_refresh_fail", BOARD_WS2812_PIN, 0>>)
  /\ Has(trace, <<"led_refresh", TOUCH_WS2812_PIN, 0>>)
  /\ AllPixels(touch_pixels, LED_COLOR_OFF)
  /\ board_brightness = 33

\* The configuration device_load_config reads: the stored byte of each key,
\* or the default of a key that is missing.
LoadedFan == nvs_get_u8(nvs, "fan_speed", 0)
LoadedBoardColor ==
  led_color_t(nvs_get_u8(nvs, "board_led_r", 0),
              nvs_get_u8(nvs, "board_led_g", 0),
              nvs_get_u8(nvs, "board_led_b", 0))
LoadedBoardBrightness == nvs_get_u8(nvs, "board_bright", 50)
LoadedTouchColor ==
  led_color_t(nvs_get_u8(nvs, "touch_led_r", 0),
              nvs_get_u8(nvs, "touch_led_g", 0),
              nvs_get_u8(nvs, "touch_led_b", 0))
LoadedTouchBrightness == nvs_get_u8(nvs, "touch_bright", 50)

\* The five setters called colour before brightness on each strip.
ColorThenBrightness(h, outs) ==
  LET h1 == fan_set_speed(h, LoadedFan)
      h2 == board_led_set_color(h1, LoadedBoardColor, outs[1])
      h3 == board_led_set_brightness(h2, LoadedBoardBrightness, outs[2])
      h4 == touch_led_set_color(h3, LoadedTouchColor, outs[3])
  IN touch_led_set_brightness(h4, LoadedTouchBrightness, outs[4])

\* A device_load_config call on an initialized device interface with
\* hardware control enabled and initialized.
LoadCall ==
  /\ pc = "idle"
  /\ call' = "device_load_config"
  /\ dev_initialized
  /\ s_config.enable_hardware_control
  /\ s_initialized

\* What a call leaves behind: status record, duty, pixels and driver calls.
Effect(h) == <<h.st, h.duty, h.bpix, h.tpix, h.trace>>

\* C22: device_load_config has the effect of the setter calls fan speed,
\* board colour, board brightness, touch colour, touch brightness in this
\* order, with the stored value of each key or its default (fan 0, colours
\* {0,0,0}, brightness 50) when the key is missing.
C22_LoadOrder ==
  [][LoadCall =>
       \E outs \in AllLedOutcomes :
         Effect(HW') = Effect(ColorThenBrightness(HW, outs))]_vars

\* The operations of the hardware-control component that test s_initialized.
InitCheckedOps ==
  (MutatingOps \ {"gpio_set_output", "gpio_toggle_output"}) \cup
  {"usb_mux_get_target", "orin_get_power_state", "n305_get_power_state",
   "hardware_get_status"}

\* C23: an operation that checks initialization, called while the component
\* is not initialized, returns ESP_ERR_INVALID_STATE whatever its argument
\* is: an out-of-range speed or brightness, an invalid mux target, or a NULL
\* output pointer.
C23_InitCheckFirst ==
  [][(~s_initialized /\ pc = "idle" /\ call' \in InitCheckedOps) =>
       ret' = ESP_ERR_INVALID_STATE]_vars

\* C24: a set_color or set_brightness call whose pixel write or strip
\* refresh was refused by the driver leaves the stored colour and the stored
\* brightness of its strip as they were before the call.
C24_FailedLedCallKeepsStatus ==
  [][pc = "idle" =>
       /\ (call' \in {"board_led_set_color", "board_led_set_brightness"}
             /\ StripFailed(trace', BOARD_WS2812_PIN)) =>
            (board_color' = board_color /\ board_brightness' = board_brightness)
       /\ (call' \in {"touch_led_set_color", "touch_led_set_brightness"}
             /\ StripFailed(trace', TOUCH_WS2812_PIN)) =>
            (touch_color' = touch_color /\ touch_brightness' = touch_brightness)
  ]_vars

\* hardware_control_deinit on an initialized component wrote the idle state
\* to the fan and to both strips, which needs the handles and the flag still
\* in place during the writes, and then released the handles and cleared the
\* flag.
DeinitTeardown ==
  (pc = "idle" /\ call' = "hardware_control_deinit" /\ s_initialized) =>
    /\ ret' = ESP_OK
    /\ QuickOrdered(trace')
    /\ Has(trace', <<"pwm", FAN_PWM_PIN, 0>>)
    /\ Has(trace', <<"led_refresh", BOARD_WS2812_PIN, 0>>)
    /\ Has(trace', <<"led_refresh", TOUCH_WS2812_PIN, 0>>)
    /\ s_hardware_status'.fan_speed = 0
    /\ fan_duty' = 0
    /\ AllPixels(board_pixels', LED_COLOR_OFF)
    /\ AllPixels(touch_pixels', LED_COLOR_OFF)
    /\ ~s_board_led_strip'
    /\ ~s_touch_led_strip'
    /\ ~s_initialized'
    /\ ~s_hardware_status'.initialized

\* C25: hardware_control_deinit on an initialized component first writes the
\* idle state (fan speed 0, both strips at {0,0,0}) and only then releases
\* the two strip handles and clears the initialized flag; while the component
\* is not initialized every setter returns ESP_ERR_INVALID_STATE.
C25_DeinitSafeIdle ==
  [][/\ DeinitTeardown
     /\ (~s_initialized /\ pc = "idle" /\ call' \in MutatingOps) =>
          ret' = ESP_ERR_INVALID_STATE]_vars

\* A step of the console task: every command moves pc.
ForegroundStep == pc' # pc

\* C26: in every interleaving of monitor_task with the console's commands a
\* step that is not the console's (a wake-up, a heap check or the warning
\* callback of the monitor task) leaves the status record, every pin, the
\* PWM duty and the pixels as they are and issues no driver call: the status
\* record changes only in steps of a command.
C26_MonitorNeverWrites ==
  [][/\ ~ForegroundStep => UNCHANGED <<s_hardware_status, Outputs, trace>>
     /\ s_hardware_status' # s_hardware_status =>
          (ForegroundStep /\ call' # "none")]_vars

\* The monitor task stands in its warning callback while usb_mux_set_target
\* is between its two pin writes and the fan runs.
C26_Witness ==
  /\ pc = "mux2"
  /\ monitor_pc = "callback"
  /\ s_warning_count = 2
  /\ s_hardware_status.fan_speed = 75

\* C27: system_monitor_start on a monitor that is not initialized or already
\* started, and system_monitor_stop on a monitor that is not started, return
\* ESP_ERR_INVALID_STATE, create or delete no task and leave the running
\* flag as it is.
C27_MonitorStartStopRejected ==
  [][pc = "idle" =>
       /\ (call' = "system_monitor_start"
             /\ (~mon_initialized \/ s_monitoring_running)) =>
            /\ ret' = ESP_ERR_INVALID_STATE
            /\ UNCHANGED <<s_monitoring_running, monitor_pc>>
       /\ (call' = "system_monitor_stop" /\ ~s_monitoring_running) =>
            /\ ret' = ESP_ERR_INVALID_STATE
            /\ UNCHANGED <<s_monitoring_running, monitor_pc>>
  ]_vars

DrivenHigh(pin) ==
  gpio_mode[pin] = "output" /\ gpio_level[pin] = GPIO_STATE_HIGH

\* C28: during the reset pulse of orin_enter_recovery_mode's step 2 the
\* recovery-select pin is an output that drives high, and a call that
\* returned ESP_OK ran with the pin in output mode, whatever operations came
\* before the call, gpio_read_input_mode on the recovery pin included.
C28_RecoveryPinDriven ==
  /\ (InRecovery /\ pc = "reset_low") => DrivenHigh(ORIN_RECOVERY_PIN)
  /\ (InRecovery /\ pc = "done" /\ ret = ESP_OK) =>
       gpio_mode[ORIN_RECOVERY_PIN] = "output"

\* C29: while usb_mux_set_target switches from the stored target to its
\* argument, between the write of MUX1 and the write of MUX2 the two select
\* pins carry the code of the stored target or the code of the argument.
C29_MuxNoIntermediateTarget ==
  (call = "usb_mux_set_target" /\ pc = "mux2") =>
    MuxPins \in {MuxSelect(s_hardware_status.usb_mux_target), MuxSelect(arg)}

\* C30: while the component is initialized the committed PWM duty equals the
\* stored fan speed times 255 over 100, truncated; it lies in 0..255, is 0
\* exactly at speed 0 and 255 exactly at speed 100; fan_start commits what
\* fan_set_speed(50) commits and fan_stop what fan_set_speed(0) commits.
C30_FanDuty ==
  /\ []((s_initialized /\ pc \in {"idle", "done"}) =>
          /\ fan_duty = (s_hardware_status.fan_speed * 255) \div 100
          /\ fan_duty \in 0..255
          /\ (fan_duty = 0 <=> s_hardware_status.fan_speed = 0)
          /\ (fan_duty = 255 <=> s_hardware_status.fan_speed = 100))
  /\ [][(pc = "idle" /\ s_initialized) =>
          /\ call' = "fan_start" =>
               /\ ret' = ESP_OK
               /\ s_hardware_status'.fan_speed = 50
               /\ trace' = <<<<"pwm", FAN_PWM_PIN, 127>>>>
          /\ call' = "fan_stop" =>
               /\ ret' = ESP_OK
               /\ s_hardware_status'.fan_speed = 0
               /\ trace' = <<<<"pwm", FAN_PWM_PIN, 0>>>>]_vars

C30_Witness ==
  /\ pc = "done"
  /\ call = "fan_set_speed"
  /\ arg = 99
  /\ ret = ESP_OK
  /\ s_hardware_status.fan_speed = 99
  /\ fan_duty = 252

\* Hue of pixel i in degrees.
RainbowHue(i) == (i * 360) \div 28

\* The channels of a fully saturated colour in the 60-degree sector of hue:
\* <<the channel at 255, the channel at 0, the channel on the ramp>>.
SectorChannels(hue) ==
  CASE hue < 60 -> <<"red", "blue", "green">>
    [] hue >= 60 /\ hue < 120 -> <<"green", "blue", "red">>
    [] hue >= 120 /\ hue < 180 -> <<"green", "red", "blue">>
    [] hue >= 180 /\ hue < 240 -> <<"blue", "red", "green">>
    [] hue >= 240 /\ hue < 300 -> <<"blue", "green", "red">>
    [] OTHER -> <<"red", "green", "blue">>

\* Sixty times the exact value of the ramp channel at hue.
Ramp60(hue) ==
  LET t == (hue % 120) - 60
  IN 255 * (60 - (IF t < 0 THEN -t ELSE t))

\* color is HSV(hue, 100, 100) in RGB: one channel at 255, one at 0, and
\* the third on the piecewise-linear ramp, at most 4 below its exact value.
IsHueColor(color, hue) ==
  LET ch == SectorChannels(hue)
  IN /\ color[ch[1]] = 255
     /\ color[ch[2]] = 0
     /\ 60 * color[ch[3]] <= Ramp60(hue)
     /\ Ramp60(hue) < 60 * (color[ch[3]] + 4)

\* The colours pixel i may show at the given brightness.
IsRainbowPixel(pixel, i, brightness) ==
  \E ramp \in {r \in ((Ramp60(RainbowHue(i)) \div 60) - 4)..
                     (Ramp60(RainbowHue(i)) \div 60) : r >= 0} :
    LET ch == SectorChannels(RainbowHue(i))
        color == [c \in {"red", "green", "blue"} |->
                    IF c = ch[1] THEN 255 ELSE IF c = ch[2] THEN 0 ELSE ramp]
    IN /\ IsHueColor(color, RainbowHue(i))
       /\ pixel = ExpectedPixel(color, brightness)

\* A board_led_set_effect call on an initialized component.
EffectCall(effect) ==
  /\ pc = "idle"
  /\ s_initialized
  /\ call' = "board_led_set_effect"
  /\ arg' = effect

\* C31: board_led_set_effect(LED_EFFECT_RAINBOW) on an initialized component
\* leaves pixel i of the 28 board pixels at HSV(i * 360 / 28, 100, 100) in
\* RGB, scaled per channel by the stored brightness over 100 (pixel 0: pure
\* red scaled), with one pixel write pass and one refresh, and leaves the
\* stored colour and brightness as they were; LED_EFFECT_SOLID shows the
\* stored colour; any other effect returns ESP_ERR_INVALID_ARG without a
\* driver call.
C31_RainbowPixels ==
  [][/\ EffectCall(LED_EFFECT_RAINBOW) =>
          /\ ret' = ESP_OK
          /\ DOMAIN board_pixels' = 0..27
          /\ \A i \in 0..27 :
               IsRainbowPixel(board_pixels'[i], i, board_brightness)
          /\ board_pixels'[0] =
               ExpectedPixel(led_color_t(255, 0, 0), board_brightness)
          /\ trace' = <<<<"led_pixels", BOARD_WS2812_PIN, 28>>,
                        <<"led_refresh", BOARD_WS2812_PIN, 0>>>>
          /\ board_color' = board_color
          /\ board_brightness' = board_brightness
          /\ touch_pixels' = touch_pixels
     /\ EffectCall(LED_EFFECT_SOLID) =>
          /\ ret' = ESP_OK
          /\ AllPixels(board_pixels', ExpectedPixel(board_color, board_brightness))
          /\ board_color' = board_color
          /\ board_brightness' = board_brightness
     /\ (pc = "idle" /\ s_initialized /\ call' = "board_led_set_effect"
           /\ arg' \notin {LED_EFFECT_SOLID, LED_EFFECT_RAINBOW}) =>
          /\ ret' = ESP_ERR_INVALID_ARG
          /\ trace' = <<>>
          /\ UNCHANGED <<s_hardware_status, board_pixels, touch_pixels>>
  ]_vars

\* The rainbow at full brightness: pixel 0 red, pixel 7 (hue 90) with green
\* at 255 and red on the ramp, pixel 14 (hue 180) cyan.
C31_Witness ==
  /\ pc = "done"
  /\ call = "board_led_set_effect"
  /\ arg = LED_EFFECT_RAINBOW
  /\ board_brightness = 100
  /\ board_color = COLOR_ORANGE
  /\ board_pixels[0] = led_color_t(255, 0, 0)
  /\ board_pixels[7] = led_color_t(127, 255, 0)
  /\ board_pixels[14] = led_color_t(0, 255, 255)

\* The stored configuration holds every key and its values are those of the
\* status record st.
HoldsStatus(kv, st) ==
  /\ DOMAIN kv = {NvsKeys[i] : i \in 1..Len(NvsKeys)}
  /\ kv.fan_speed = st.fan_speed
  /\ kv.board_led_r = st.board_led_color.red
  /\ kv.board_led_g = st.board_led_color.green
  /\ kv.board_led_b = st.board_led_color.blue
  /\ kv.board_bright = st.board_led_brightness
  /\ kv.touch_led_r = st.touch_led_color.red
  /\ kv.touch_led_g = st.touch_led_color.green
  /\ kv.touch_led_b = st.touch_led_color.blue
  /\ kv.touch_bright = st.touch_led_brightness

\* A device_save_config call with hardware control enabled that returns OK
\* leaves the values of the status record it was called in in the stored
\* configuration, and the status record as it was.
SaveKeepsStatus ==
  (/\ pc = "idle"
   /\ call' = "device_save_config"
   /\ s_config.enable_hardware_control
   /\ ret' = ESP_OK)
  => /\ HoldsStatus(nvs', s_hardware_status)
     /\ UNCHANGED s_hardware_status

\* Only device_save_config changes the stored configuration: the setters
\* called between a save and a load leave it alone.
OnlySaveWrites == (nvs' # nvs) => call' = "device_save_config"

\* The status record and the pixels after a load of a stored configuration.
Restored ==
  /\ HoldsStatus(nvs, s_hardware_status')
  /\ AllPixels(board_pixels', ExpectedPixel(LoadedBoardColor, LoadedBoardBrightness))
  /\ AllPixels(touch_pixels', ExpectedPixel(LoadedTouchColor, LoadedTouchBrightness))

\* A device_load_config call, after a save, that returns OK.
LoadAfterSave == LoadCall /\ DOMAIN nvs # {} /\ ret' = ESP_OK

\* C32: a device_save_config that returns OK in status S stores the values of
\* S and only a save changes the stored values; a later device_load_config
\* that returns OK and during which the strip driver accepted every write
\* leaves fan speed, both colours and both brightness values equal to the
\* stored ones and every pixel of both strips equal to the stored colour
\* scaled by the stored brightness.
C32_SaveLoadRoundTrip ==
  /\ [][SaveKeepsStatus]_vars
  /\ [][OnlySaveWrites]_vars
  /\ [][(LoadAfterSave /\ \A i \in 1..Len(trace') : ~IsFailure(trace'[i]))
          => Restored]_vars

\* A load returned OK with every strip write accepted: it wrote the saved fan
\* speed 0 to the PWM channel and the board strip shows the saved orange at
\* the saved brightness 100.
C32_Witness ==
  /\ pc = "done"
  /\ call = "device_load_config"
  /\ ret = ESP_OK
  /\ HoldsStatus(nvs, s_hardware_status)
  /\ s_hardware_status.fan_speed = 0
  /\ Has(trace, <<"pwm", FAN_PWM_PIN, 0>>)
  /\ board_color = COLOR_ORANGE
  /\ board_brightness = 100
  /\ AllPixels(board_pixels, COLOR_ORANGE)
  /\ \A i \in 1..Len(trace) : ~IsFailure(trace[i])

\* C32 as stated, every device_load_config that returns OK counted as
\* successful: it leaves the status record and the pixels of both strips at
\* the saved values.
C32_SuccessfulLoadRestores ==
  /\ [][SaveKeepsStatus]_vars
  /\ [][OnlySaveWrites]_vars
  /\ [][LoadAfterSave => Restored]_vars

\* Monitor tasks that exist: the one created last, unless deleted, and those
\* on their way out.
MonitorTasks == (IF monitor_pc # "none" THEN 1 ELSE 0) + exiting_tasks

OneMonitorTask == MonitorTasks <= 1
NoInvalidDelete == invalid_delete = "none"
RunningHasTask ==
  s_monitoring_running => (s_monitor_task_handle /\ monitor_pc # "none")

\* C35: in every interleaving of system_monitor_init, system_monitor_start,
\* system_monitor_stop and system_monitor_deinit with monitor_task, at most
\* one monitor task exists, no vTaskDelete hits a task that is already
\* deleted or the calling task, and while s_monitoring_running is set the
\* handle is not NULL and its task exists.
C35_MonitorTaskHandle == OneMonitorTask /\ NoInvalidDelete /\ RunningHasTask

\* xTaskCreate never overwrites the handle of a task that still exists.
CreateFindsNoTask ==
  [][(pc = "idle" /\ pc' = "start_flag")
       => (monitor_pc = "none" /\ ~s_monitor_task_handle)]_vars

\* A device interface call on an initialized interface whose system monitor
\* is enabled and initialized.
MonitoredCall(op) ==
  /\ pc = "idle"
  /\ dev_initialized
  /\ s_config.enable_system_monitor
  /\ mon_initialized
  /\ call' = op

\* C33: with the monitor enabled and initialized, device_enter_sleep_mode
\* returns with the monitor task stopped and device_wake_up returns with the
\* monitor task running, whether or not it ran before.
C33_SleepStopsWakeStarts ==
  [][/\ MonitoredCall("device_enter_sleep_mode") =>
          /\ ret' = ESP_OK
          /\ ~s_monitoring_running'
          /\ monitor_pc' = "none"
     /\ MonitoredCall("device_wake_up") =>
          /\ ret' = ESP_OK
          /\ s_monitoring_running'
          /\ monitor_pc' # "none"]_vars

\* C34: a gpio_toggle_output(pin) that returns OK leaves the output latch of
\* the pin at the opposite of the level it had: low becomes high and high
\* becomes low.
C34_ToggleFlipsLevel ==
  [][(/\ pc = "idle"
      /\ call' = "gpio_toggle_output"
      /\ ret' = ESP_OK)
       => gpio_level'[arg'] = 1 - gpio_level[arg']]_vars

\* A device interface call has just returned with hardware control enabled
\* and initialized.
ReturnedFrom(op) ==
  /\ pc = "done"
  /\ call = op
  /\ dev_initialized
  /\ s_config.enable_hardware_control
  /\ s_initialized

\* C36: when device_enter_sleep_mode has returned, a second
\* device_enter_sleep_mode followed by device_wake_up (every driver call
\* accepted) returns OK with fan speed 0 and both colours {0,0,0}, the values
\* the second call captured, and with both brightness values as captured by
\* the first call; the snapshot then holds fan speed 0 and colours {0,0,0}.
C36_SecondSleepOverwrites ==
  ReturnedFrom("device_enter_sleep_mode") =>
    LET after == SleepThenWake(HW, DEV)
    IN /\ after.h.ret = ESP_OK
       /\ after.h.st.fan_speed = 0
       /\ after.h.st.board_led_color = LED_COLOR_OFF
       /\ after.h.st.touch_led_color = LED_COLOR_OFF
       /\ after.h.st.board_led_brightness =
            s_last_status.hardware.board_led_brightness
       /\ after.h.st.touch_led_brightness =
            s_last_status.hardware.touch_led_brightness
       /\ after.h.duty = 0
       /\ after.d.last.hardware.fan_speed = 0
       /\ after.d.last.hardware.board_led_color = LED_COLOR_OFF
       /\ after.d.last.hardware.touch_led_color = LED_COLOR_OFF

\* A first device_enter_sleep_mode has returned: it captured fan speed 75,
\* orange on both strips and board brightness 33, and shut the fan down.
C36_Witness ==
  /\ ReturnedFrom("device_enter_sleep_mode")
  /\ s_last_status.hardware_available
  /\ s_last_status.hardware.fan_speed = 75
  /\ s_last_status.hardware.board_led_color = COLOR_ORANGE
  /\ s_last_status.hardware.touch_led_color = COLOR_ORANGE
  /\ s_last_status.hardware.board_led_brightness = 33
  /\ s_hardware_status.fan_speed = 0
  /\ board_color = LED_COLOR_OFF

\* The five restored fields of status record st equal those of snapshot.
SameSettings(st, snapshot) ==
  /\ st.fan_speed = snapshot.fan_speed
  /\ st.board_led_color = snapshot.board_led_color
  /\ st.board_led_brightness = snapshot.board_led_brightness
  /\ st.touch_led_color = snapshot.touch_led_color
  /\ st.touch_led_brightness = snapshot.touch_led_brightness

\* The setters called with new values after a wake-up, every driver call
\* accepted.
SetAfterWake(h, speed, color, brightness) ==
  LET h1 == fan_set_speed(h, speed)
      h2 == board_led_set_color(h1, color, LedOk)
      h3 == board_led_set_brightness(h2, brightness, LedOk)
      h4 == touch_led_set_color(h3, color, LedOk)
  IN touch_led_set_brightness(h4, brightness, LedOk)

\* C37: device_wake_up leaves the snapshot as it is, and only
\* device_enter_sleep_mode writes it. When device_wake_up has returned and
\* the setters then change fan speed, colours and brightness, a second
\* device_wake_up with no sleep in between sets the five values back to the
\* snapshot if the snapshot was taken with available hardware, and leaves
\* the status record as the setters left it if no such snapshot exists.
C37_WakeKeepsSnapshot ==
  /\ [](ReturnedFrom("device_wake_up") =>
          \A speed \in {30, 75}, brightness \in {33, 60} :
            LET set == SetAfterWake(HW, speed, led_color_t(1, 2, 255), brightness)
                after == device_wake_up(set, DEV, TRUE,
                                        <<LedOk, LedOk, LedOk, LedOk>>)
            IN /\ set.st.fan_speed = speed
               /\ after.h.ret = ESP_OK
               /\ after.d.last = s_last_status
               /\ IF s_last_status.hardware_available
                    THEN SameSettings(after.h.st, s_last_status.hardware)
                    ELSE after.h.st = set.st)
  /\ [][/\ (pc = "idle" /\ call' = "device_wake_up") => UNCHANGED s_last_status
        /\ s_last_status' # s_last_status =>
             call' = "device_enter_sleep_mode"]_vars

\* A device_wake_up has returned and restored a snapshot with fan speed 75
\* and orange at brightness 33 on the board strip; the snapshot is still
\* there.
C37_Witness ==
  /\ ReturnedFrom("device_wake_up")
  /\ s_last_status.hardware_available
  /\ s_last_status.hardware.fan_speed = 75
  /\ s_last_status.hardware.board_led_color = COLOR_ORANGE
  /\ s_last_status.hardware.board_led_brightness = 33
  /\ SameSettings(s_hardware_status, s_last_status.hardware)

\* The status record a successful hardware_control_init leaves.
InitialStatus ==
  [initialized |-> TRUE,
   fan_speed |-> 0,
   board_led_color |-> led_color_t(0, 0, 0),
   board_led_brightness |-> 50,
   touch_led_color |-> led_color_t(0, 0, 0),
   touch_led_brightness |-> 50,
   usb_mux_target |-> USB_MUX_ESP32S3,
   orin_power_state |-> POWER_STATE_ON,
   n305_power_state |-> POWER_STATE_UNKNOWN]

\* The mux select pins and the power, reset and recovery pins.
ControlPins ==
  {ESP32_MUX1_SEL, ESP32_MUX2_SEL, ORIN_POWER_PIN, ORIN_RESET_PIN,
   ORIN_RECOVERY_PIN, N305_POWER_BTN_PIN, N305_RESET_PIN}

\* C38: a hardware_control_init that starts uninitialized and returns OK
\* leaves the status record at its defaults and the mux and power pins in
\* output mode at level low; on an initialized component the call returns OK
\* with no driver call and leaves the status record and every output as they
\* are; hardware_control_deinit followed by hardware_control_init thus
\* replaces whatever mux target and power states were commanded by the
\* defaults.
C38_InitResetsOnlyWhenUninitialized ==
  /\ [][/\ SuccessfulInit =>
             /\ s_hardware_status' = InitialStatus
             /\ \A pin \in ControlPins : DrivenLow(pin)'
        /\ (s_initialized /\ pc = "idle" /\ call' = "hardware_control_init") =>
             /\ ret' = ESP_OK
             /\ trace' = <<>>
             /\ UNCHANGED <<s_initialized, s_hardware_status, s_board_led_strip,
                            s_touch_led_strip, Outputs>>]_vars
  /\ []((s_initialized /\ pc = "idle") =>
          LET off == hardware_control_deinit(HW, LedOk, LedOk)
              on == hardware_control_init(off, <<"none", 0>>)
          IN /\ on.ret = ESP_OK
             /\ on.st = InitialStatus
             /\ \A pin \in ControlPins :
                  on.mode[pin] = "output" /\ on.lvl[pin] = GPIO_STATE_LOW)

\* hardware_control_init has returned OK on a component that was already
\* initialized: no driver call, the mux still routes to the N305 with both
\* select pins high and the stored Orin state is still Off.
C38_Witness ==
  /\ pc = "done"
  /\ call = "hardware_control_init"
  /\ ret = ESP_OK
  /\ trace = <<>>
  /\ s_initialized
  /\ s_hardware_status.usb_mux_target = USB_MUX_N305
  /\ gpio_level[ESP32_MUX1_SEL] = GPIO_STATE_HIGH
  /\ gpio_level[ESP32_MUX2_SEL] = GPIO_STATE_HIGH
  /\ s_hardware_status.orin_power_state = POWER_STATE_OFF

\* The composite operations that skip the hardware when hardware control is
\* disabled.
HardwareGatedOps ==
  {"device_quick_setup", "device_shutdown_all", "device_wake_up",
   "device_load_config"}

\* C39: device_interface_init on an interface that is not initialized returns
\* OK and marks it initialized whatever hardware_control_init returned, and
\* hardware control stays enabled only when it was requested and the
\* hardware component is initialized afterwards; with hardware control
\* disabled device_get_full_status reports hardware_available = false, and
\* device_quick_setup, device_shutdown_all, device_wake_up and
\* device_load_config return OK with no driver call and leave the status
\* record and every output as they are.
C39_InitSurvivesHardwareFailure ==
  /\ [][(pc = "idle" /\ ~dev_initialized /\ call' = "device_interface_init") =>
          /\ ret' = ESP_OK
          /\ dev_initialized'
          /\ s_config'.enable_hardware_control =
               (arg'.enable_hardware_control /\ s_initialized')]_vars
  /\ []((dev_initialized /\ ~s_config.enable_hardware_control) =>
          ~device_get_full_status(HW, DEV).hardware_available)
  /\ [][(/\ pc = "idle"
         /\ dev_initialized
         /\ ~s_config.enable_hardware_control
         /\ call' \in HardwareGatedOps) =>
          /\ ret' = ESP_OK
          /\ trace' = <<>>
          /\ UNCHANGED <<s_initialized, s_hardware_status, Outputs>>]_vars

\* device_quick_setup has returned OK without a driver call on an interface
\* whose hardware_control_init failed after the board strip was created:
\* hardware control is disabled, the component is not initialized and the
\* requested fan speed 75 was not stored.
C39_Witness ==
  /\ pc = "done"
  /\ call = "device_quick_setup"
  /\ arg[1] = 75
  /\ ret = ESP_OK
  /\ trace = <<>>
  /\ dev_initialized
  /\ ~s_config.enable_hardware_control
  /\ ~s_initialized
  /\ s_board_led_strip
  /\ s_hardware_status.fan_speed = 0
  /\ ~device_get_full_status(HW, DEV).hardware_available

====
